---- MODULE Spec2Model ----
(***************************************************************************)
(* Rifts Protocol V2 (src/src/lib.rs): the ledger record of one rift, the  *)
(* token balances of the accounts its instructions move funds between, and *)
(* the instructions that change them.                                      *)
(*                                                                         *)
(* Execution model.  An instruction runs to completion; when it returns    *)
(* Err the runtime discards every change it made (record and token         *)
(* accounts alike, lib.rs:101-103), so a failed instruction leaves the     *)
(* state it found.  wrap_tokens and unwrap_from_vault make external        *)
(* sub-calls (token transfers, mint, burn); they are split at those calls  *)
(* in a Begin and a Finish step so that an entry attempted from inside a   *)
(* sub-call sees the record as the body left it (guard set).               *)
(*                                                                         *)
(* `ctx.accounts.vault.amount` is the copy of the token account that was   *)
(* deserialized when the instruction started; it follows the account only  *)
(* after `reload()`.  The operators below read the cached or the reloaded  *)
(* balance exactly where the source does.                                  *)
(***************************************************************************)
EXTENDS Integers, Sequences, FiniteSets, TLC

VARIABLES
    rift,       \* the Rift account (lib.rs:5694-5756)
    exists,     \* the Rift account is open (not closed by `close = ...`)
    bal,        \* `amount` of every token account
    withheld,   \* Token-2022 withheld transfer fees of the RIFT accounts
    supply,     \* supply of the RIFT mint (changed by mint_to / burn only)
    mint_fee,   \* transfer-fee basis points of the underlying and the RIFT mint
    clock,      \* Clock sysvar: slot and unix_timestamp
    pc,         \* "idle", or the guarded instruction whose body is at a sub-call
    frame,      \* arguments of that instruction and the record it found
    bodies      \* bodies of guarded instructions in progress on the record

vars == <<rift, exists, bal, withheld, supply, mint_fee, clock, pc, frame, bodies>>

----------------------------------------------------------------------------
(* Bounds of the model *)

\* underlying tokens the user starts with
UserFunds == 700
\* the small amount offered to wrap, unwrap and distribute (fee rounds to 0)
SmallAmount == 300
\* what is wrapped, and what is then sent to a peer, before the distributions
\* of SpecDistribute
DistWrapFees == 7000
DistWrap == 13000
DistPeer == 12000
\* what the partner sends straight to the fee vault in SpecDistribute
DirectAmount == 3
\* what the user holds above LargeCap in SpecLarge
LargeExtra == 1
\* underlying tokens the user starts with in SpecLedger, and the RIFT minted
\* over the life of its record, at most
LedgerFunds == 1000
\* a small amount unwrapped in SpecSmallUnwrap
TinyAmount == 10
\* the smallest amount the administrators withdraw in SpecDrained
DustAmount == 1
\* SpecOracleChange: the clock advances by ChangeTickSeconds or one second
\* less, MaxChangeTicks times at most
ChangeTickSeconds == 43200
MaxChangeTicks == 4
\* SpecAverage: the ages of the samples that are not stale and of those
\* that are, and the prices of the samples of odd and of even index
FreshAge == 2000
OldSampleAge == 700000
SamplePriceOdd == 1050001
SamplePriceEven == 1100000
\* SpecAddPrice: the samples offered to add_price_data
MaxSamples == 3
\* SpecManual: the manual updates made, and the long steps of the clock
MaxManualUpdates == 3
DaysTickSeconds == 302400
MaxDaysTicks == 3
LedgerMaxMinted == 2000
\* RIFT tokens minted over the life of the record, at most
MaxMinted == 1000
\* oracle samples added over the life of the record, at most
MaxOracleUpdates == 1
\* rebalances over the life of the record, at most
MaxRebalances == 1
\* how many times the clock advances
MaxTicks == 1
\* seconds and slots the clock advances by at a time
TickSeconds == 1801
TickSlots == 4500
\* clock at creation
StartTime == 1000000
StartSlot == 500000

----------------------------------------------------------------------------
(* Program constants *)

REENTRANCY_TIMEOUT_SLOTS == 432000
DEFAULT_FEE_BPS == 30
MAX_UNDERLYING_FEE_BPS == 100
\* the transfer fee the RIFT mint is created with (70..100 accepted)
MAX_RIFT_FEE_BPS == 100
\* u64::MAX, at the width of TLC's integers
U64_MAX == 2147483647

Max(a, b) == IF a >= b THEN a ELSE b

----------------------------------------------------------------------------
(* Identities and token accounts *)

Creator          == "creator"
Partner          == "partner"
Treasury         == "treasury"
ProgramAuthority == "program_authority"
AdminAuthority2  == "admin_authority_2"
User             == "user"
SystemProgram    == "system_program"

\* Option<Pubkey>::None, and two Switchboard aggregator addresses
None  == "none"
FeedA == "feed_a"
FeedB == "feed_b"

Signers == {Creator, Partner, Treasury, ProgramAuthority, AdminAuthority2, User}

\* token accounts of the underlying mint
UnderlyingAccounts ==
    {"vault", "fees_vault", "user_underlying", "partner_underlying",
     "treasury_underlying", "admin_underlying"}
\* token accounts of the RIFT mint
RiftAccounts ==
    {"withheld_vault", "user_rift", "peer_rift", "partner_rift", "treasury_rift"}
TokenAccounts == UnderlyingAccounts \cup RiftAccounts

----------------------------------------------------------------------------
(* The token program (external): transfer_checked, mint_to, burn *)

\* (mutation) the fee is one unit more than the mint's rate gives
FeeOffByOne(amount, bps) == (amount * bps) \div 10000 + 1

\* Token-2022 transfer fee of `amount` at `bps`: rounded up, kept from the recipient
TransferFee(amount, bps) == (amount * bps + 9999) \div 10000

\* interface_transfer_checked: the source is debited `amount`, the destination
\* is credited `amount` less the mint's transfer fee; fails when the source is short
CanTransfer(b, from, amount) == b[from] >= amount

\* (mutation) the fee is taken from the source on top of the amount
SenderPaysFee(b, from, to, amount, bps) ==
    IF from = to THEN b
    ELSE [b EXCEPT ![from] = @ - (amount + (amount * bps + 9999) \div 10000),
                   ![to]   = @ + amount]

TransferChecked(b, from, to, amount, bps) ==
    IF from = to THEN b
    ELSE [b EXCEPT ![from] = @ - amount,
                   ![to]   = @ + (amount - TransferFee(amount, bps))]

----------------------------------------------------------------------------
(* Results of an instruction body *)

Ok == "Ok"

\* an Err(...) return: nothing of the body's work survives
Fail(code, st) == [result |-> code, rift |-> st.rift, bal |-> st.bal,
                   withheld |-> st.withheld, supply |-> st.supply, out |-> 0]

\* an Ok(()) return with the record, balances, withheld fees and supply it leaves
Done(r, b, w, s, o) == [result |-> Ok, rift |-> r, bal |-> b,
                        withheld |-> w, supply |-> s, out |-> o]

----------------------------------------------------------------------------
(* Reentrancy guard: the entry block and the trailing release that        *)
(* wrap_tokens, unwrap_from_vault and trigger_rebalance each carry        *)

\* (mutation) the guard times out one slot early
RejectsUntilTimeout(r, slot) ==
    /\ r.reentrancy_guard
    /\ ~(slot >= r.reentrancy_guard_slot + REENTRANCY_TIMEOUT_SLOTS)

\* the guard is held and has not timed out: the entry returns ReentrancyDetected
GuardRejects(r, slot) ==
    /\ r.reentrancy_guard
    /\ ~(slot > r.reentrancy_guard_slot + REENTRANCY_TIMEOUT_SLOTS)

\* (mutation) the entry block does not take the guard
EntryWithoutGuard(r, slot) == r

\* the entry block on a record it does not reject: a stuck guard is cleared,
\* then the guard is taken at the current slot
GuardAcquire(r, slot) ==
    LET cleared == IF r.reentrancy_guard
                   THEN [r EXCEPT !.reentrancy_guard = FALSE,
                                  !.reentrancy_guard_slot = 0]
                   ELSE r
    IN [cleared EXCEPT !.reentrancy_guard = TRUE,
                       !.reentrancy_guard_slot = slot]

\* (mutation) the guard is left set on return
NoRelease(r) == r

\* "Always clear guard and slot, even on error"
GuardRelease(r) ==
    [r EXCEPT !.reentrancy_guard = FALSE, !.reentrancy_guard_slot = 0]

----------------------------------------------------------------------------
(* wrap_tokens *)

\* what the caller passes as its two token accounts
AccountChoices == {"own", "foreign_mint", "foreign_owner"}

\* manual validation of user_underlying and user_rift_tokens
AccountCheck(choice) ==
    CASE choice = "foreign_mint"  -> "InvalidMint"
      [] choice = "foreign_owner" -> "UnauthorizedTokenAccount"
      [] OTHER -> Ok

\* (mutation) the fee is rounded up
FeeRoundedUp(amount, bps) == (amount * bps + 9999) \div 10000

\* amount * fee_bps / 10000, checked
FeeOf(amount, bps) == (amount * bps) \div 10000

\* (mutation) the minimum is enforced one unit too low
MeetsMinimumLessOne(actual, minimum) == actual + 1 >= minimum

\* slippage protection: the amount reached is at least the minimum asked for
MeetsMinimum(actual, minimum) == actual >= minimum

\* (mutation) the requested amount is taken for what the vault received
TrustsRequestedAmount(vault_balance_before, vault_balance_after, amount) == amount

\* actual_received: the vault's balance after the transfer (reloaded) less
\* its balance before
ActualReceived(vault_balance_before, vault_balance_after, amount) ==
    vault_balance_after - vault_balance_before

\* (mutation) an amount of zero is let through
WrapAcceptsZero(st, amount, accts) ==
    IF st.rift.is_closed THEN "RiftClosed"
    ELSE IF AccountCheck(accts) # Ok THEN AccountCheck(accts)
    ELSE IF ~(amount <= U64_MAX \div Max(st.rift.wrap_fee_bps, 1)) THEN "AmountTooLarge"
    ELSE Ok

\* the checks of the body that precede its first sub-call
WrapPre(st, amount, accts) ==
    IF st.rift.is_closed THEN "RiftClosed"
    ELSE IF ~(amount > 0) THEN "InvalidAmount"
    ELSE IF AccountCheck(accts) # Ok THEN AccountCheck(accts)
    ELSE IF ~(amount <= U64_MAX \div Max(st.rift.wrap_fee_bps, 1)) THEN "AmountTooLarge"
    ELSE Ok

\* the body of wrap_tokens on the record `st.rift` with the guard held
WrapBody(st, amount, min_rift_out, accts) ==
    LET r == st.rift
        b == st.bal
        fee_multiplier == r.wrap_fee_bps
        vault_balance_before == b["vault"]
    IN
    IF WrapPre(st, amount, accts) # Ok THEN Fail(WrapPre(st, amount, accts), st)
    ELSE IF ~CanTransfer(b, "user_underlying", amount) THEN Fail("TokenInsufficientFunds", st)
    ELSE
    LET b1 == TransferChecked(b, "user_underlying", "vault", amount, st.underlying_fee_bps)
        actual_received == ActualReceived(vault_balance_before, b1["vault"], amount)
        wrap_fee == FeeOf(actual_received, fee_multiplier)
        amount_after_fee == actual_received - wrap_fee
        route == wrap_fee > 0 /\ r.fees_vault # SystemProgram
    IN
    IF actual_received > U64_MAX \div Max(fee_multiplier, 1) THEN Fail("MathOverflow", st)
    ELSE IF ~MeetsMinimum(amount_after_fee, min_rift_out) THEN Fail("SlippageExceeded", st)
    ELSE IF route /\ ~CanTransfer(b1, "vault", wrap_fee) THEN Fail("TokenInsufficientFunds", st)
    ELSE
    LET b2 == IF route
              THEN TransferChecked(b1, "vault", "fees_vault", wrap_fee, st.underlying_fee_bps)
              ELSE b1
        actual_fee_credited ==
            IF route THEN b2["fees_vault"] - b1["fees_vault"]
            ELSE IF wrap_fee > 0 THEN wrap_fee
            ELSE 0
        \* interface_mint_to(amount_after_fee)
        b3 == [b2 EXCEPT !["user_rift"] = @ + amount_after_fee]
        s3 == st.supply + amount_after_fee
    IN
    IF st.supply > U64_MAX - amount_after_fee THEN Fail("TokenOverflow", st)
    ELSE IF r.total_underlying_wrapped > U64_MAX - amount_after_fee
            \/ r.total_rift_minted > U64_MAX - amount_after_fee
            \/ r.total_fees_collected > U64_MAX - actual_fee_credited
         THEN Fail("MathOverflow", st)
    ELSE
    Done([r EXCEPT !.total_underlying_wrapped = @ + amount_after_fee,
                   !.total_rift_minted = @ + amount_after_fee,
                   !.total_fees_collected = @ + actual_fee_credited],
         b3, st.withheld, s3, amount_after_fee)

----------------------------------------------------------------------------
(* unwrap_from_vault *)

\* (mutation) the account is read as the fee transfer left it
ReloadedAmount(at_entry, live) == live

\* ctx.accounts.vault.amount with no reload() since the account was loaded
CachedAmount(at_entry, live) == at_entry

\* (mutation) the largest amount the fee multiplication can take is turned down
UnwrapPreBelowBound(st, rift_token_amount, accts) ==
    LET fee_multiplier == st.rift.unwrap_fee_bps
        unwrap_fee == FeeOf(rift_token_amount, fee_multiplier)
        amount_after_fee == rift_token_amount - unwrap_fee
    IN
    IF st.rift.is_closed THEN "RiftClosed"
    ELSE IF ~(rift_token_amount > 0) THEN "InvalidAmount"
    ELSE IF AccountCheck(accts) # Ok THEN AccountCheck(accts)
    ELSE IF ~(rift_token_amount < U64_MAX \div Max(fee_multiplier, 1)) THEN "AmountTooLarge"
    ELSE IF ~(st.bal["vault"] >= amount_after_fee) THEN "InsufficientFunds"
    ELSE Ok

UnwrapPre(st, rift_token_amount, accts) ==
    LET fee_multiplier == st.rift.unwrap_fee_bps
        unwrap_fee == FeeOf(rift_token_amount, fee_multiplier)
        amount_after_fee == rift_token_amount - unwrap_fee
    IN
    IF st.rift.is_closed THEN "RiftClosed"
    ELSE IF ~(rift_token_amount > 0) THEN "InvalidAmount"
    ELSE IF AccountCheck(accts) # Ok THEN AccountCheck(accts)
    ELSE IF ~(rift_token_amount <= U64_MAX \div Max(fee_multiplier, 1)) THEN "AmountTooLarge"
    \* the vault is checked against the net amount before the burn
    ELSE IF ~(st.bal["vault"] >= amount_after_fee) THEN "InsufficientFunds"
    ELSE Ok

\* the body of unwrap_from_vault on the record `st.rift` with the guard held
UnwrapBody(st, rift_token_amount, min_underlying_out, accts) ==
    LET r == st.rift
        b == st.bal
        fee_multiplier == r.unwrap_fee_bps
        unwrap_fee == FeeOf(rift_token_amount, fee_multiplier)
        amount_after_fee == rift_token_amount - unwrap_fee
        route == unwrap_fee > 0 /\ r.fees_vault # SystemProgram
        \* ctx.accounts.vault.amount before any reload(): the balance at entry
        vault_cached == b["vault"]
    IN
    IF UnwrapPre(st, rift_token_amount, accts) # Ok
    THEN Fail(UnwrapPre(st, rift_token_amount, accts), st)
    \* interface_burn(rift_token_amount)
    ELSE IF ~(b["user_rift"] >= rift_token_amount) THEN Fail("TokenInsufficientFunds", st)
    ELSE
    LET b1 == [b EXCEPT !["user_rift"] = @ - rift_token_amount]
        s1 == st.supply - rift_token_amount
    IN
    IF route /\ ~CanTransfer(b1, "vault", unwrap_fee) THEN Fail("TokenInsufficientFunds", st)
    ELSE
    LET b2 == IF route
              THEN TransferChecked(b1, "vault", "fees_vault", unwrap_fee, st.underlying_fee_bps)
              ELSE b1
        \* read from the cached account: no reload() since entry
        vault_balance_before == CachedAmount(vault_cached, b2["vault"])
        \* parsed from the account data: the live balance
        user_balance_before == b2["user_underlying"]
    IN
    IF ~CanTransfer(b2, "vault", amount_after_fee) THEN Fail("TokenInsufficientFunds", st)
    ELSE
    LET b3 == TransferChecked(b2, "vault", "user_underlying", amount_after_fee,
                              st.underlying_fee_bps)
        \* vault.reload()
        vault_balance_after == b3["vault"]
        actual_sent == vault_balance_before - vault_balance_after
        actual_received == b3["user_underlying"] - user_balance_before
    IN
    IF ~MeetsMinimum(actual_sent, amount_after_fee) THEN Fail("SlippageExceeded", st)
    ELSE IF ~MeetsMinimum(actual_received, min_underlying_out)
    THEN Fail("SlippageExceeded", st)
    ELSE IF r.total_underlying_wrapped < actual_sent
            \/ r.total_rift_minted < rift_token_amount
            \/ r.total_burned > U64_MAX - rift_token_amount
            \/ r.total_fees_collected > U64_MAX - unwrap_fee
            \/ r.total_volume_24h > U64_MAX - amount_after_fee
         THEN Fail("MathOverflow", st)
    ELSE
    Done([r EXCEPT !.total_underlying_wrapped = @ - actual_sent,
                   !.total_rift_minted = @ - rift_token_amount,
                   !.total_burned = @ + rift_token_amount,
                   !.total_fees_collected = @ + unwrap_fee,
                   !.total_volume_24h = @ + amount_after_fee],
         b3, st.withheld, s1, actual_received)

----------------------------------------------------------------------------
(* Oracle window and rebalance (impl Rift) *)

MAX_ORACLE_AGE == 3600
MAX_BACKING_RATIO_AGE == 86400
MAX_BACKING_RATIO_AGE_RECOVERY == 604800
ORACLE_UPDATE_INTERVAL == 1800
MIN_MANUAL_UPDATE_GAP == 3600
\* arbitrage_threshold_bps, as set at creation
ARBITRAGE_THRESHOLD_BPS == 200
\* "Trigger if deviation > 2%"
DEVIATION_TRIGGER_BPS == 200
\* u16::MAX
U16_MAX == 65535
MAX_REBALANCE_INTERVAL == 86400
INITIAL_PRICE == 1000000
INITIAL_CONFIDENCE == 100000
WINDOW == 10

\* p > 1_000_000_000_000, written so that no number beyond TLC's
\* integers is formed
ExceedsMaxPrice(p) ==
    \/ p \div 1000000 > 1000000
    \/ (p \div 1000000 = 1000000 /\ p % 1000000 > 0)

\* a * 10000 / d (checked_mul, checked_div), divided two decimal places at
\* a time so that no number beyond TLC's integers is formed
Bps(a, d) ==
    LET hundredths == ((a % d) * 100) \div d
        rest == ((a % d) * 100) % d
    IN (a \div d) * 10000 + hundredths * 100 + (rest * 100) \div d

Abs(x) == IF x < 0 THEN -x ELSE x

PRECISION_SCALE == 1000000

\* (mutation) a sample of exactly MAX_ORACLE_AGE seconds is skipped as well
StaleAtMaxAge(age) == age >= MAX_ORACLE_AGE

\* age > MAX_ORACLE_AGE: the sample is skipped
IsStale(age) == age > MAX_ORACLE_AGE

\* (mutation) recovery mode keeps the limit of normal mode
SameAgeInRecovery(allow_stale_fallback) == MAX_BACKING_RATIO_AGE

\* the oldest backing_ratio the fallback accepts
MaxBackingRatioAge(allow_stale_fallback) ==
    IF allow_stale_fallback THEN MAX_BACKING_RATIO_AGE_RECOVERY
    ELSE MAX_BACKING_RATIO_AGE

RECURSIVE SumFresh(_, _, _)
\* total_price over the samples of indices i..WINDOW that are set and not stale
SumFresh(prices, now, i) ==
    IF i > WINDOW THEN 0
    ELSE (IF prices[i].timestamp > 0 /\ ~IsStale(now - prices[i].timestamp)
          THEN prices[i].price ELSE 0) + SumFresh(prices, now, i + 1)

\* get_average_oracle_price_with_options: [err |-> code, price |-> value]
AveragePrice(r, now, allow_stale_fallback) ==
    LET set   == {i \in 1..WINDOW : r.oracle_prices[i].timestamp > 0}
        stale == {i \in set : IsStale(now - r.oracle_prices[i].timestamp)}
        count == Cardinality(set \ stale)
        stale_count == Cardinality(stale)
        total_price == SumFresh(r.oracle_prices, now, 1)
        \* scaled_avg = total_price * PRECISION_SCALE / count, held as
        \* whole * PRECISION_SCALE + frac so that no number beyond TLC's
        \* integers is formed
        scaled_avg_whole == total_price \div count
        scaled_avg_frac == ((total_price % count) * PRECISION_SCALE) \div count
        avg_price == scaled_avg_whole + scaled_avg_frac \div PRECISION_SCALE
        final_price == avg_price
        backing_ratio_age == now - r.last_rebalance
    IN
    IF ~allow_stale_fallback /\ count < 1 /\ stale_count > 0
    THEN [err |-> "OraclePriceStale", price |-> 0]
    ELSE IF count > 0 THEN
        IF ~(final_price > 0) THEN [err |-> "InvalidOraclePrice", price |-> 0]
        ELSE IF ExceedsMaxPrice(final_price) THEN [err |-> "OraclePriceTooLarge", price |-> 0]
        ELSE [err |-> Ok, price |-> final_price]
    ELSE
        IF ~(r.backing_ratio > 0) THEN [err |-> "InvalidBackingRatio", price |-> 0]
        ELSE IF ~(backing_ratio_age <= MaxBackingRatioAge(allow_stale_fallback))
        THEN [err |-> "BackingRatioTooStale", price |-> 0]
        ELSE [err |-> Ok, price |-> r.backing_ratio]

\* (mutation) a sample of exactly 300 seconds is refused as well
TimestampYoungerThanLimit(timestamp, now) ==
    timestamp <= now + 60 /\ timestamp > now - 300

\* add_price_data: the sample is refused outside [now - 300, now + 60]
TimestampOk(timestamp, now) == timestamp <= now + 60 /\ timestamp >= now - 300

\* (mutation) the cursor is advanced without wrapping
AddPriceDataNoWrap(r, price, confidence, timestamp) ==
    [r EXCEPT !.oracle_prices[r.price_index + 1] =
                  [price |-> price, confidence |-> confidence, timestamp |-> timestamp],
              !.price_index = r.price_index + 1,
              !.last_oracle_update = timestamp]

\* the write of add_price_data
AddPriceData(r, price, confidence, timestamp) ==
    [r EXCEPT !.oracle_prices[r.price_index + 1] =
                  [price |-> price, confidence |-> confidence, timestamp |-> timestamp],
              !.price_index = (r.price_index + 1) % WINDOW,
              !.last_oracle_update = timestamp]

\* Rift::add_price_data called at time `now`: [err |-> code, rift |-> record]
add_price_data(r, price, confidence, timestamp, now) ==
    IF ~TimestampOk(timestamp, now) THEN [err |-> "InvalidTimestamp", rift |-> r]
    ELSE [err |-> Ok, rift |-> AddPriceData(r, price, confidence, timestamp)]

\* (mutation) the interval is counted from the last rebalance
CanRebalanceSinceRebalance(r, now) == now - r.last_rebalance > r.oracle_update_interval

\* can_manual_rebalance
CanManualRebalance(r, now) == now - r.last_oracle_update > r.oracle_update_interval

\* (mutation) a rebalance is due as soon as the interval is reached
TriggersAtInterval(r, current_time, now) ==
    LET avg == AveragePrice(r, now, FALSE)
        deviation == IF r.backing_ratio = 0 THEN 0
                     ELSE Bps(Abs(avg.price - r.backing_ratio), r.backing_ratio)
    IN
    IF ~(Abs(current_time - now) <= 60) THEN [err |-> "InvalidTimestamp", value |-> FALSE]
    ELSE IF current_time - r.last_rebalance >= r.max_rebalance_interval
    THEN [err |-> Ok, value |-> TRUE]
    ELSE IF r.total_volume_24h > r.total_rift_minted \div 10 THEN [err |-> Ok, value |-> TRUE]
    ELSE IF r.arbitrage_opportunity_bps > ARBITRAGE_THRESHOLD_BPS
    THEN [err |-> Ok, value |-> TRUE]
    ELSE IF avg.err # Ok THEN [err |-> avg.err, value |-> FALSE]
    ELSE IF deviation > U16_MAX THEN [err |-> "MathOverflow", value |-> FALSE]
    ELSE [err |-> Ok, value |-> deviation > DEVIATION_TRIGGER_BPS]

\* Rift::should_trigger_rebalance called at time `now`, with
\* calculate_price_deviation: [err |-> code, value |-> the boolean returned]
should_trigger_rebalance(r, current_time, now) ==
    LET avg == AveragePrice(r, now, FALSE)
        deviation == IF r.backing_ratio = 0 THEN 0
                     ELSE Bps(Abs(avg.price - r.backing_ratio), r.backing_ratio)
    IN
    IF ~(Abs(current_time - now) <= 60) THEN [err |-> "InvalidTimestamp", value |-> FALSE]
    ELSE IF current_time - r.last_rebalance > r.max_rebalance_interval
    THEN [err |-> Ok, value |-> TRUE]
    ELSE IF r.total_volume_24h > r.total_rift_minted \div 10 THEN [err |-> Ok, value |-> TRUE]
    ELSE IF r.arbitrage_opportunity_bps > ARBITRAGE_THRESHOLD_BPS
    THEN [err |-> Ok, value |-> TRUE]
    ELSE IF avg.err # Ok THEN [err |-> avg.err, value |-> FALSE]
    ELSE IF deviation > U16_MAX THEN [err |-> "MathOverflow", value |-> FALSE]
    ELSE [err |-> Ok, value |-> deviation > DEVIATION_TRIGGER_BPS]

\* (mutation) the volume counter is not reset
RebalanceKeepsVolume(r, avg_price, now) ==
    [r EXCEPT !.backing_ratio = avg_price,
              !.last_rebalance = now,
              !.rebalance_count = @ + 1,
              !.arbitrage_opportunity_bps = 0,
              !.price_deviation = 0]

\* (mutation) backing_ratio takes the distance of the average from it
RebalanceWritesDeviation(r, avg_price, now) ==
    [r EXCEPT !.backing_ratio = Abs(avg_price - r.backing_ratio),
              !.last_rebalance = now,
              !.rebalance_count = @ + 1,
              !.arbitrage_opportunity_bps = 0,
              !.price_deviation = 0,
              !.total_volume_24h = 0]

\* trigger_automatic_rebalance on a record whose average price is avg_price
AutomaticRebalance(r, avg_price, now) ==
    [r EXCEPT !.backing_ratio = avg_price,
              !.last_rebalance = now,
              !.rebalance_count = @ + 1,
              !.arbitrage_opportunity_bps = 0,
              !.price_deviation = 0,
              !.total_volume_24h = 0]

\* the body of trigger_rebalance
RebalanceBody(st) ==
    LET r == st.rift
        now == st.now
        avg == AveragePrice(r, now, FALSE)
    IN
    IF ~CanManualRebalance(r, now) THEN Fail("RebalanceTooSoon", st)
    ELSE IF avg.err # Ok THEN Fail(avg.err, st)
    ELSE IF ~(avg.price > 0) THEN Fail("InvalidOraclePrice", st)
    ELSE IF ExceedsMaxPrice(avg.price) THEN Fail("OraclePriceTooLarge", st)
    ELSE Done(AutomaticRebalance(r, avg.price, now), st.bal, st.withheld, st.supply, avg.price)

\* (mutation) the change allowed in one update is doubled
ChangeLimitDoubled(price_change_bps) == price_change_bps <= 2000

\* "Max 10% change per update"
WithinChangeLimit(price_change_bps) == price_change_bps <= 1000

\* (mutation) the cumulative drift allowed is 35%
DriftLimitWidened(cumulative_drift_bps) == cumulative_drift_bps <= 3500

\* "Max 30% cumulative drift"
WithinDriftLimit(cumulative_drift_bps) == cumulative_drift_bps <= 3000

\* (mutation) the next manual update is let in a second early
UpdateAllowedEarly(current_time, last_manual_oracle_update) ==
    last_manual_oracle_update > 0
        => current_time - last_manual_oracle_update >= MIN_MANUAL_UPDATE_GAP - 1

\* rate limit of update_manual_oracle: none before the first manual update
UpdateAllowed(current_time, last_manual_oracle_update) ==
    last_manual_oracle_update > 0
        => current_time - last_manual_oracle_update >= MIN_MANUAL_UPDATE_GAP

\* update_manual_oracle
ManualOracleBody(st, signer, price, confidence) ==
    LET r == st.rift
        now == st.now
        avg == AveragePrice(r, now, TRUE)
        current_avg_price == avg.price
        price_change_bps == Bps(Abs(price - current_avg_price), current_avg_price)
        first == r.manual_oracle_drift_window_start = 0
        cumulative_drift_bps ==
            Bps(Abs(price - r.manual_oracle_base_price), r.manual_oracle_base_price)
        r1 == IF first
              THEN [r EXCEPT !.manual_oracle_base_price = current_avg_price,
                             !.manual_oracle_drift_window_start = now]
              ELSE r
        max_confidence == (price * 5) \div 100
    IN
    IF signer # r.creator THEN Fail("Unauthorized", st)
    ELSE IF ~UpdateAllowed(now, r.last_manual_oracle_update)
    THEN Fail("OracleUpdateTooFrequent", st)
    ELSE IF avg.err # Ok THEN Fail(avg.err, st)
    ELSE IF current_avg_price > 0 /\ ~WithinChangeLimit(price_change_bps)
    THEN Fail("OraclePriceChangeTooLarge", st)
    ELSE IF ~first /\ r.manual_oracle_base_price > 0 /\ ~WithinDriftLimit(cumulative_drift_bps)
    THEN Fail("OracleCumulativeDriftTooLarge", st)
    ELSE IF ~(price > 0) THEN Fail("InvalidOraclePrice", st)
    ELSE IF ExceedsMaxPrice(price) THEN Fail("OraclePriceTooLarge", st)
    ELSE IF ~(confidence <= max_confidence) THEN Fail("InvalidConfidence", st)
    ELSE IF ~TimestampOk(now, now) THEN Fail("InvalidTimestamp", st)
    ELSE Done([AddPriceData(r1, price, confidence, now)
                  EXCEPT !.last_manual_oracle_update = now],
              st.bal, st.withheld, st.supply, price)

----------------------------------------------------------------------------
(* Fee vaults *)

\* what the caller passes as the partner and the treasury token account
PayoutChoices == {"own", "foreign_treasury", "foreign_partner"}

PayoutCheck(choice) ==
    CASE choice = "foreign_treasury" -> "InvalidTreasuryVault"
      [] choice = "foreign_partner"  -> "InvalidPartnerVault"
      [] OTHER -> Ok

\* (mutation) any signer may distribute
AnyoneAuthorized(r, payer) == payer \in Signers

\* creator, partner, treasury or the program authority
IsAuthorized(r, payer) ==
    \/ payer = r.creator
    \/ payer = r.partner_wallet
    \/ payer = r.treasury_wallet
    \/ payer = ProgramAuthority

\* distribute_fees_from_vault
\* (mutation) the odd unit goes to the partner
PartnerRoundsUp(amount) == (amount + 1) \div 2

\* the 50/50 split: amount.checked_div(2), the treasury takes the rest
PartnerShare(amount) == amount \div 2

TreasuryShare(amount) == amount - PartnerShare(amount)

DistributeFeesBody(st, payer, amount, accts) ==
    LET r == st.rift
        b == st.bal
        fees_vault_balance == b["fees_vault"]
        partner_amount == PartnerShare(amount)
        treasury_amount == TreasuryShare(amount)
        fees_vault_balance_before == b["fees_vault"]
        b1 == IF partner_amount > 0
              THEN TransferChecked(b, "fees_vault", "partner_underlying", partner_amount,
                                   st.underlying_fee_bps)
              ELSE b
        b2 == TransferChecked(b1, "fees_vault", "treasury_underlying", treasury_amount,
                              st.underlying_fee_bps)
        actual_sent == fees_vault_balance_before - b2["fees_vault"]
    IN
    IF PayoutCheck(accts) # Ok THEN Fail(PayoutCheck(accts), st)
    ELSE IF ~IsAuthorized(r, payer) THEN Fail("Unauthorized", st)
    ELSE IF ~(amount > 0) THEN Fail("InvalidAmount", st)
    ELSE IF ~(amount <= fees_vault_balance) THEN Fail("InsufficientFees", st)
    ELSE IF ~(actual_sent >= (amount * 98) \div 100) THEN Fail("ExcessiveTransferFee", st)
    ELSE IF r.total_fees_collected < actual_sent THEN Fail("MathOverflow", st)
    ELSE Done([r EXCEPT !.total_fees_collected = @ - actual_sent],
              b2, st.withheld, st.supply, actual_sent)

\* transfer_checked of the RIFT mint: the fee stays withheld in the destination
RiftTransfer(st, from, to, amount) ==
    LET fee == TransferFee(amount, st.rift_fee_bps)
    IN [bal |-> [st.bal EXCEPT ![from] = @ - amount, ![to] = @ + (amount - fee)],
        withheld |-> [st.withheld EXCEPT ![to] = @ + fee]]

\* distribute_withheld_vault
DistributeWithheldBody(st, payer, amount, accts) ==
    LET r == st.rift
        b == st.bal
        partner_amount == PartnerShare(amount)
        treasury_amount == TreasuryShare(amount)
        withheld_vault_balance_before == b["withheld_vault"]
        partner_balance_before == IF partner_amount > 0 THEN b["partner_rift"] ELSE 0
        treasury_balance_before == b["treasury_rift"]
        t1 == IF partner_amount > 0
              THEN RiftTransfer(st, "withheld_vault", "partner_rift", partner_amount)
              ELSE [bal |-> b, withheld |-> st.withheld]
        t2 == RiftTransfer([st EXCEPT !.bal = t1.bal, !.withheld = t1.withheld],
                           "withheld_vault", "treasury_rift", treasury_amount)
        actual_sent_from_source == withheld_vault_balance_before - t2.bal["withheld_vault"]
        partner_received == IF partner_amount > 0
                            THEN t2.bal["partner_rift"] - partner_balance_before ELSE 0
        treasury_received == t2.bal["treasury_rift"] - treasury_balance_before
        total_received == partner_received + treasury_received
    IN
    IF PayoutCheck(accts) # Ok THEN Fail(PayoutCheck(accts), st)
    ELSE IF ~IsAuthorized(r, payer) THEN Fail("Unauthorized", st)
    ELSE IF ~(amount > 0) THEN Fail("InvalidAmount", st)
    ELSE IF ~(amount <= b["withheld_vault"]) THEN Fail("InsufficientFees", st)
    ELSE IF ~(total_received >= (amount * 98) \div 100) THEN Fail("ExcessiveTransferFee", st)
    ELSE IF ~(actual_sent_from_source = amount) THEN Fail("ExcessiveTransferFee", st)
    ELSE Done(r, t2.bal, t2.withheld, st.supply, total_received)

\* claim_withheld_fees and admin_claim_withheld_fees: the withheld fees of
\* source_account are moved to withheld_vault; the treasury wallet signs
ClaimWithheldBody(st, treasury_signer, source_account) ==
    IF treasury_signer # st.rift.treasury_wallet THEN Fail("UnauthorizedAdmin", st)
    ELSE Done(st.rift,
              [st.bal EXCEPT !["withheld_vault"] = @ + st.withheld[source_account]],
              [st.withheld EXCEPT ![source_account] = 0],
              st.supply, st.withheld[source_account])

\* (mutation) the withdrawal is paid out of the backing vault
WithdrawFeesFromBacking(st, program_authority, amount) ==
    IF program_authority # ProgramAuthority THEN Fail("UnauthorizedAdmin", st)
    ELSE IF ~CanTransfer(st.bal, "vault", amount) THEN Fail("TokenInsufficientFunds", st)
    ELSE IF st.rift.total_fees_collected < amount THEN Fail("MathOverflow", st)
    ELSE Done([st.rift EXCEPT !.total_fees_collected = @ - amount],
              TransferChecked(st.bal, "vault", "treasury_underlying", amount,
                              st.underlying_fee_bps),
              st.withheld, st.supply, amount)

\* admin_withdraw_fees_vault
AdminWithdrawFeesBody(st, program_authority, amount) ==
    IF program_authority # ProgramAuthority THEN Fail("UnauthorizedAdmin", st)
    ELSE IF ~CanTransfer(st.bal, "fees_vault", amount) THEN Fail("TokenInsufficientFunds", st)
    ELSE IF st.rift.total_fees_collected < amount THEN Fail("MathOverflow", st)
    ELSE Done([st.rift EXCEPT !.total_fees_collected = @ - amount],
              TransferChecked(st.bal, "fees_vault", "treasury_underlying", amount,
                              st.underlying_fee_bps),
              st.withheld, st.supply, amount)

\* (mutation) withheld RIFT moved to the treasury is taken off total_rift_minted
WithdrawWithheldUncounted(st, program_authority, amount) ==
    LET t == RiftTransfer(st, "withheld_vault", "treasury_rift", amount)
    IN
    IF program_authority # ProgramAuthority THEN Fail("UnauthorizedAdmin", st)
    ELSE IF ~CanTransfer(st.bal, "withheld_vault", amount) THEN Fail("TokenInsufficientFunds", st)
    ELSE IF st.rift.total_rift_minted < amount THEN Fail("MathOverflow", st)
    ELSE Done([st.rift EXCEPT !.total_rift_minted = @ - amount],
              t.bal, t.withheld, st.supply, amount)

\* admin_withdraw_withheld_vault
AdminWithdrawWithheldBody(st, program_authority, amount) ==
    LET t == RiftTransfer(st, "withheld_vault", "treasury_rift", amount)
    IN
    IF program_authority # ProgramAuthority THEN Fail("UnauthorizedAdmin", st)
    ELSE IF ~CanTransfer(st.bal, "withheld_vault", amount) THEN Fail("TokenInsufficientFunds", st)
    ELSE Done(st.rift, t.bal, t.withheld, st.supply, amount)

----------------------------------------------------------------------------
(* Administration and closing *)

\* admin_emergency_withdraw_vault
EmergencyWithdrawBody(st, admin_authority_1, admin_authority_2, amount) ==
    IF admin_authority_1 # ProgramAuthority THEN Fail("UnauthorizedAdmin", st)
    ELSE IF admin_authority_2 # AdminAuthority2 THEN Fail("UnauthorizedAdmin", st)
    ELSE IF ~CanTransfer(st.bal, "vault", amount) THEN Fail("TokenInsufficientFunds", st)
    ELSE IF st.rift.total_underlying_wrapped < amount THEN Fail("MathOverflow", st)
    ELSE Done([st.rift EXCEPT !.total_underlying_wrapped = @ - amount],
              TransferChecked(st.bal, "vault", "admin_underlying", amount,
                              st.underlying_fee_bps),
              st.withheld, st.supply, amount)

\* admin_reset_reentrancy_guard: the flag is cleared, the slot is left
ResetGuardBody(st, program_authority) ==
    IF program_authority # ProgramAuthority THEN Fail("UnauthorizedAdmin", st)
    ELSE Done([st.rift EXCEPT !.reentrancy_guard = FALSE],
              st.bal, st.withheld, st.supply, 0)

\* (mutation) the fee counter is not looked at
CloseWithoutFeeCounter(st, creator) ==
    LET r == st.rift
        b == st.bal
    IN
    IF r.creator # creator THEN "UnauthorizedClose"
    ELSE IF ~(r.total_rift_minted = 0) THEN "VaultNotEmpty"
    ELSE IF r.vault # SystemProgram /\ ~(b["vault"] = 0) THEN "VaultNotEmpty"
    ELSE IF ~(r.total_underlying_wrapped = 0) THEN "VaultNotEmpty"
    ELSE IF r.fees_vault # SystemProgram /\ ~(b["fees_vault"] = 0) THEN "FeesVaultNotEmpty"
    ELSE IF r.withheld_vault # SystemProgram /\ ~(b["withheld_vault"] = 0)
    THEN "WithheldVaultNotEmpty"
    ELSE Ok

\* (mutation) the account passed is recorded as the fee vault unchecked
InitializeFeesVaultUnchecked(st, user, fees_vault) ==
    Done([st.rift EXCEPT !.fees_vault = fees_vault], st.bal, st.withheld, st.supply, 0)

\* initialize_fees_vault: the account passed must be the record's fees_vault
\* address; the system program creates no account where one already is
InitializeFeesVaultBody(st, user, fees_vault) ==
    IF fees_vault # "fees_vault" THEN Fail("ConstraintSeeds", st)
    ELSE IF ~(user = st.rift.creator \/ user = ProgramAuthority) THEN Fail("Unauthorized", st)
    ELSE IF fees_vault \in DOMAIN st.bal THEN Fail("AccountAlreadyInUse", st)
    ELSE Done([st.rift EXCEPT !.fees_vault = fees_vault],
              st.bal, st.withheld, st.supply, 0)

\* initialize_withheld_vault, likewise
InitializeWithheldVaultBody(st, user, withheld_vault) ==
    IF withheld_vault # "withheld_vault" THEN Fail("ConstraintSeeds", st)
    ELSE IF ~(user = st.rift.creator \/ user = ProgramAuthority) THEN Fail("Unauthorized", st)
    ELSE IF withheld_vault \in DOMAIN st.bal THEN Fail("AccountAlreadyInUse", st)
    ELSE Done([st.rift EXCEPT !.withheld_vault = withheld_vault],
              st.bal, st.withheld, st.supply, 0)

\* close_rift: the result code; on Ok the account is closed to the creator
CloseRiftResult(st, creator) ==
    LET r == st.rift
        b == st.bal
    IN
    IF r.creator # creator THEN "UnauthorizedClose"
    ELSE IF ~(r.total_rift_minted = 0) THEN "VaultNotEmpty"
    ELSE IF r.vault # SystemProgram /\ ~(b["vault"] = 0) THEN "VaultNotEmpty"
    ELSE IF ~(r.total_underlying_wrapped = 0) THEN "VaultNotEmpty"
    ELSE IF ~(r.total_fees_collected = 0) THEN "FeesVaultNotEmpty"
    ELSE IF r.fees_vault # SystemProgram /\ ~(b["fees_vault"] = 0) THEN "FeesVaultNotEmpty"
    ELSE IF r.withheld_vault # SystemProgram /\ ~(b["withheld_vault"] = 0)
    THEN "WithheldVaultNotEmpty"
    ELSE Ok

\* admin_close_rift: marks the record closed before the account is closed
AdminCloseBody(st, program_authority) ==
    IF program_authority # ProgramAuthority THEN Fail("UnauthorizedAdmin", st)
    ELSE Done([st.rift EXCEPT !.is_closed = TRUE,
                              !.closed_at_slot = st.slot,
                              !.reentrancy_guard = FALSE,
                              !.reentrancy_guard_slot = 0],
              st.bal, st.withheld, st.supply, 0)

----------------------------------------------------------------------------
(* State after create_rift / create_rift_with_vanity_pda *)

InitialRift ==
    [creator |-> Creator,
     vault |-> "vault",
     fees_vault |-> "fees_vault",
     withheld_vault |-> "withheld_vault",
     partner_wallet |-> Partner,
     treasury_wallet |-> Treasury,
     wrap_fee_bps |-> DEFAULT_FEE_BPS,
     unwrap_fee_bps |-> DEFAULT_FEE_BPS,
     total_underlying_wrapped |-> 0,
     total_rift_minted |-> 0,
     total_burned |-> 0,
     backing_ratio |-> INITIAL_PRICE,
     last_rebalance |-> StartTime,
     oracle_prices |-> [i \in 1..WINDOW |->
                           [price |-> INITIAL_PRICE,
                            confidence |-> INITIAL_CONFIDENCE,
                            timestamp |-> StartTime]],
     price_index |-> 0,
     oracle_update_interval |-> ORACLE_UPDATE_INTERVAL,
     max_rebalance_interval |-> MAX_REBALANCE_INTERVAL,
     last_oracle_update |-> StartTime,
     total_volume_24h |-> 0,
     price_deviation |-> 0,
     arbitrage_opportunity_bps |-> 0,
     rebalance_count |-> 0,
     total_fees_collected |-> 0,
     last_manual_oracle_update |-> 0,
     manual_oracle_base_price |-> 0,
     manual_oracle_drift_window_start |-> 0,
     reentrancy_guard |-> FALSE,
     reentrancy_guard_slot |-> 0,
     is_closed |-> FALSE,
     closed_at_slot |-> 0,
     switchboard_feed_account |-> None,
     oracle_change_pending |-> FALSE,
     pending_switchboard_account |-> None,
     oracle_change_timestamp |-> 0]

IdleFrame == [amount |-> 0, min_out |-> 0, accts |-> "own",
              guard_was |-> FALSE, slot_was |-> 0]

TypeOK ==
    /\ exists \in BOOLEAN
    /\ pc \in {"idle", "wrap_tokens", "unwrap_from_vault"}
    /\ bodies \in 0..2
    /\ \A a \in TokenAccounts : bal[a] \in 0..U64_MAX
    /\ \A a \in RiftAccounts : withheld[a] \in 0..U64_MAX
    /\ supply \in 0..U64_MAX

InitCommon ==
    /\ exists = TRUE
    /\ bal = [a \in TokenAccounts |-> IF a = "user_underlying" THEN UserFunds ELSE 0]
    /\ withheld = [a \in RiftAccounts |-> 0]
    /\ supply = 0
    /\ mint_fee \in {[underlying |-> u, rift |-> MAX_RIFT_FEE_BPS] :
                        u \in {0, MAX_UNDERLYING_FEE_BPS}}
    /\ clock = [slot |-> StartSlot, unix_timestamp |-> StartTime]
    /\ pc = "idle"
    /\ frame = IdleFrame
    /\ bodies = 0

Init ==
    /\ rift = InitialRift
    /\ InitCommon

\* the state an instruction runs on
State ==
    [rift |-> rift, bal |-> bal, withheld |-> withheld, supply |-> supply,
     underlying_fee_bps |-> mint_fee.underlying, rift_fee_bps |-> mint_fee.rift,
     now |-> clock.unix_timestamp, slot |-> clock.slot]

----------------------------------------------------------------------------
(* Whole instructions: what a call returns and leaves on a state *)

\* the state the body runs on: the entry block has taken the guard
Entered(st) == [st EXCEPT !.rift = GuardAcquire(st.rift, st.slot)]

\* entry block, body (`res` is what it returns on Entered(st)), trailing
\* release; an Err of the body discards its work
Guarded(st, res) ==
    IF GuardRejects(st.rift, st.slot) THEN Fail("ReentrancyDetected", st)
    ELSE IF res.result = Ok
         THEN [res EXCEPT !.rift = GuardRelease(res.rift)]
         ELSE Fail(res.result, st)

wrap_tokens(st, amount, min_rift_out, accts) ==
    Guarded(st, WrapBody(Entered(st), amount, min_rift_out, accts))

unwrap_from_vault(st, rift_token_amount, min_underlying_out, accts) ==
    Guarded(st, UnwrapBody(Entered(st), rift_token_amount, min_underlying_out, accts))

trigger_rebalance(st) ==
    Guarded(st, RebalanceBody(Entered(st)))

\* (mutation) the handler runs on the closed account's last contents
LoadedAfterClose(res) == res

\* Anchor loads the Rift account before the handler runs
Loaded(res) == IF exists THEN res ELSE Fail("AccountNotInitialized", State)

----------------------------------------------------------------------------
(* Steps *)

\* the runtime keeps what an instruction that returned Ok has done and
\* discards what one that returned Err has done
Commit(res) ==
    IF res.result = Ok
    THEN /\ rift' = res.rift
         /\ bal' = res.bal
         /\ withheld' = res.withheld
         /\ supply' = res.supply
    ELSE UNCHANGED <<rift, bal, withheld, supply>>

\* an instruction that makes no sub-call on which the record could be re-entered
Instruction(res) ==
    /\ pc = "idle"
    /\ Commit(Loaded(res))
    /\ UNCHANGED <<exists, mint_fee, clock, pc, frame, bodies>>

\* the record as it was before the entry block took the guard
BeforeEntry(r, f) ==
    [r EXCEPT !.reentrancy_guard = f.guard_was, !.reentrancy_guard_slot = f.slot_was]

\* entry of wrap_tokens or unwrap_from_vault up to its first sub-call; a call
\* rejected by the guard or by the checks before that sub-call leaves nothing
GuardedBegin(op, pre, amount, min_out, accts) ==
    /\ pc = "idle"
    /\ IF exists /\ ~GuardRejects(rift, clock.slot) /\ pre = Ok
       THEN /\ rift' = GuardAcquire(rift, clock.slot)
            /\ pc' = op
            /\ frame' = [amount |-> amount, min_out |-> min_out, accts |-> accts,
                         guard_was |-> rift.reentrancy_guard,
                         slot_was |-> rift.reentrancy_guard_slot]
            /\ bodies' = bodies + 1
       ELSE UNCHANGED <<rift, pc, frame, bodies>>
    /\ UNCHANGED <<exists, bal, withheld, supply, mint_fee, clock>>

\* the rest of the body, the trailing release of the guard and the return
GuardedFinish(op, res) ==
    /\ pc = op
    /\ IF res.result = Ok
       THEN Commit([res EXCEPT !.rift = GuardRelease(res.rift)])
       ELSE /\ rift' = BeforeEntry(rift, frame)
            /\ UNCHANGED <<bal, withheld, supply>>
    /\ pc' = "idle"
    /\ frame' = IdleFrame
    /\ bodies' = 0
    /\ UNCHANGED <<exists, mint_fee, clock>>

WrapAmounts == {0, SmallAmount, UserFunds}

WrapBegin ==
    \E amount \in WrapAmounts, accts \in AccountChoices :
    \E min_rift_out \in {0, amount} :
        /\ rift.total_burned + rift.total_rift_minted + amount <= MaxMinted
        /\ GuardedBegin("wrap_tokens",
                        WrapPre([State EXCEPT !.rift = GuardAcquire(rift, clock.slot)],
                                amount, accts),
                        amount, min_rift_out, accts)

WrapFinish ==
    GuardedFinish("wrap_tokens",
                  WrapBody(State, frame.amount, frame.min_out, frame.accts))

UnwrapAmounts == {0, SmallAmount, bal["user_rift"], bal["user_rift"] + 1}

UnwrapBegin ==
    \E rift_token_amount \in UnwrapAmounts, accts \in AccountChoices :
    \E min_underlying_out \in {0, rift_token_amount} :
        GuardedBegin("unwrap_from_vault",
                     UnwrapPre([State EXCEPT !.rift = GuardAcquire(rift, clock.slot)],
                               rift_token_amount, accts),
                     rift_token_amount, min_underlying_out, accts)

UnwrapFinish ==
    GuardedFinish("unwrap_from_vault",
                  UnwrapBody(State, frame.amount, frame.min_out, frame.accts))

\* an entry into a guarded instruction of the same record attempted from
\* inside a sub-call of the body in progress.  Rejected, the error ends the
\* whole transaction and everything it did is discarded; let in, a second
\* body runs on the record.
NestedEntry ==
    /\ pc # "idle"
    /\ bodies < 2
    /\ IF GuardRejects(rift, clock.slot)
       THEN /\ rift' = BeforeEntry(rift, frame)
            /\ pc' = "idle"
            /\ frame' = IdleFrame
            /\ bodies' = 0
       ELSE /\ rift' = GuardAcquire(rift, clock.slot)
            /\ bodies' = bodies + 1
            /\ UNCHANGED <<pc, frame>>
    /\ UNCHANGED <<exists, bal, withheld, supply, mint_fee, clock>>

\* trigger_rebalance makes no sub-call: entry, body and release in one step
TriggerRebalance ==
    /\ rift.rebalance_count < MaxRebalances
    /\ Instruction(trigger_rebalance(State))

ManualPrices == {1050000, 1200000}
ManualConfidences == {10000, 100000}

UpdateManualOracle ==
    \E oracle_authority \in {Creator, User}, price \in ManualPrices,
       confidence \in ManualConfidences :
        /\ rift.price_index < MaxOracleUpdates
        /\ Instruction(ManualOracleBody(State, oracle_authority, price, confidence))

\* amounts asked of a fee vault: nothing, all of it, more than it holds
VaultAmounts(v) == {0, bal[v], bal[v] + 1}

DistributeFeesFromVault ==
    \E payer \in Signers, amount \in VaultAmounts("fees_vault"), accts \in PayoutChoices :
        Instruction(DistributeFeesBody(State, payer, amount, accts))

DistributeWithheldVault ==
    \E payer \in Signers, amount \in VaultAmounts("withheld_vault"), accts \in PayoutChoices :
        Instruction(DistributeWithheldBody(State, payer, amount, accts))

ClaimSources == {"peer_rift"}

ClaimWithheldFees ==
    \E treasury_signer \in {Treasury, User}, source_account \in ClaimSources :
        Instruction(ClaimWithheldBody(State, treasury_signer, source_account))

AdminClaimWithheldFees ==
    \E treasury_signer \in {Treasury, User}, source_account \in ClaimSources :
        Instruction(ClaimWithheldBody(State, treasury_signer, source_account))

AdminWithdrawFeesVault ==
    \E program_authority \in {ProgramAuthority, Creator},
       amount \in VaultAmounts("fees_vault") :
        Instruction(AdminWithdrawFeesBody(State, program_authority, amount))

AdminWithdrawWithheldVault ==
    \E program_authority \in {ProgramAuthority, Creator},
       amount \in VaultAmounts("withheld_vault") :
        Instruction(AdminWithdrawWithheldBody(State, program_authority, amount))

AdminEmergencyWithdrawVault ==
    \E admin_authority_1 \in {ProgramAuthority, User},
       admin_authority_2 \in {AdminAuthority2, User},
       amount \in {SmallAmount, bal["vault"] + 1} :
        Instruction(EmergencyWithdrawBody(State, admin_authority_1, admin_authority_2,
                                          amount))

AdminResetReentrancyGuard ==
    \E program_authority \in {ProgramAuthority, Creator} :
        Instruction(ResetGuardBody(State, program_authority))

\* initialize_fees_vault, with the fee vault or the backing vault passed
InitializeFeesVault ==
    \E user \in {Creator, ProgramAuthority, User}, fees_vault \in {"fees_vault", "vault"} :
        Instruction(InitializeFeesVaultBody(State, user, fees_vault))

\* initialize_withheld_vault, with the withheld vault or the fee vault passed
InitializeWithheldVault ==
    \E user \in {Creator, ProgramAuthority, User},
       withheld_vault \in {"withheld_vault", "fees_vault"} :
        Instruction(InitializeWithheldVaultBody(State, user, withheld_vault))

\* close_rift: on Ok the `close = creator` constraint removes the account
CloseRift ==
    \E creator \in {Creator, User} :
        /\ pc = "idle"
        /\ exists' = (exists /\ CloseRiftResult(State, creator) # Ok)
        /\ UNCHANGED <<rift, bal, withheld, supply, mint_fee, clock, pc, frame, bodies>>

\* admin_close_rift: the record is marked, then `close = program_authority`
\* removes the account
AdminCloseRift ==
    \E program_authority \in {ProgramAuthority, Creator} :
        LET res == Loaded(AdminCloseBody(State, program_authority))
        IN /\ pc = "idle"
           /\ rift' = res.rift
           /\ exists' = (exists /\ res.result # Ok)
           /\ UNCHANGED <<bal, withheld, supply, mint_fee, clock, pc, frame, bodies>>

----------------------------------------------------------------------------
(* Environment *)

\* what the user sends to the peer
PeerAmount == SmallAmount \div 3

\* the user sends RIFT tokens to a peer; the mint's transfer fee is withheld
\* in the peer's account
PeerTransfer ==
    /\ pc = "idle"
    /\ bal["user_rift"] >= PeerAmount
    /\ bal["peer_rift"] = 0
    /\ LET t == RiftTransfer(State, "user_rift", "peer_rift", PeerAmount)
       IN /\ bal' = t.bal
          /\ withheld' = t.withheld
    /\ UNCHANGED <<rift, exists, supply, mint_fee, clock, pc, frame, bodies>>

\* time passes between transactions
Tick ==
    /\ pc = "idle"
    /\ clock.slot < StartSlot + MaxTicks * TickSlots
    /\ clock' = [slot |-> clock.slot + TickSlots,
                 unix_timestamp |-> clock.unix_timestamp + TickSeconds]
    /\ UNCHANGED <<rift, exists, bal, withheld, supply, mint_fee, pc, frame, bodies>>

Next ==
    \/ WrapBegin
    \/ WrapFinish
    \/ UnwrapBegin
    \/ UnwrapFinish
    \/ NestedEntry
    \/ TriggerRebalance
    \/ UpdateManualOracle
    \/ DistributeFeesFromVault
    \/ DistributeWithheldVault
    \/ ClaimWithheldFees
    \/ AdminClaimWithheldFees
    \/ AdminWithdrawFeesVault
    \/ AdminWithdrawWithheldVault
    \/ AdminEmergencyWithdrawVault
    \/ AdminResetReentrancyGuard
    \/ InitializeFeesVault
    \/ InitializeWithheldVault
    \/ CloseRift
    \/ AdminCloseRift
    \/ PeerTransfer
    \/ Tick

Spec == Init /\ [][Next]_vars

\* wrap_tokens and unwrap_from_vault alone
NextWrapUnwrap ==
    \/ WrapBegin
    \/ WrapFinish
    \/ UnwrapBegin
    \/ UnwrapFinish

SpecWrapUnwrap == Init /\ [][NextWrapUnwrap]_vars

\* every instruction but admin_emergency_withdraw_vault
NextNoEmergency ==
    \/ WrapBegin
    \/ WrapFinish
    \/ UnwrapBegin
    \/ UnwrapFinish
    \/ NestedEntry
    \/ TriggerRebalance
    \/ UpdateManualOracle
    \/ DistributeFeesFromVault
    \/ DistributeWithheldVault
    \/ ClaimWithheldFees
    \/ AdminClaimWithheldFees
    \/ AdminWithdrawFeesVault
    \/ AdminWithdrawWithheldVault
    \/ AdminResetReentrancyGuard
    \/ CloseRift
    \/ AdminCloseRift
    \/ PeerTransfer
    \/ Tick

SpecNoEmergency == Init /\ [][NextNoEmergency]_vars

\* the last slot whose guard is still held after the clock has advanced once
GuardExpiringSlot == StartSlot + TickSlots - REENTRANCY_TIMEOUT_SLOTS

\* a record found with its guard set, as an instruction that never reached
\* its trailing release would have left it
InitGuard ==
    /\ rift \in {[InitialRift EXCEPT !.reentrancy_guard = TRUE,
                                     !.reentrancy_guard_slot = s] :
                    s \in {GuardExpiringSlot - 1, GuardExpiringSlot}}
    /\ InitCommon

SpecGuard == InitGuard /\ [][Next]_vars

\* wrap_tokens and unwrap_from_vault by a user holding LedgerFunds, with
\* amounts up to all the caller holds and minimum outputs around the net amount
InitLedger ==
    /\ rift = InitialRift
    /\ exists = TRUE
    /\ bal = [a \in TokenAccounts |-> IF a = "user_underlying" THEN LedgerFunds ELSE 0]
    /\ withheld = [a \in RiftAccounts |-> 0]
    /\ supply = 0
    /\ mint_fee \in {[underlying |-> u, rift |-> MAX_RIFT_FEE_BPS] :
                        u \in {0, MAX_UNDERLYING_FEE_BPS}}
    /\ clock = [slot |-> StartSlot, unix_timestamp |-> StartTime]
    /\ pc = "idle"
    /\ frame = IdleFrame
    /\ bodies = 0

\* minimum outputs asked for: none, the amount itself, and the values
\* around the amount less fees
MinOuts(amount) == {0, amount} \cup {m \in (amount - 24)..(amount - 1) : m > 0}

LedgerWrapBegin ==
    \E amount \in {0, SmallAmount, bal["user_underlying"], bal["user_underlying"] + 1},
       accts \in AccountChoices :
    \E min_rift_out \in MinOuts(amount) :
        /\ rift.total_burned + rift.total_rift_minted + amount <= LedgerMaxMinted
        /\ GuardedBegin("wrap_tokens",
                        WrapPre([State EXCEPT !.rift = GuardAcquire(rift, clock.slot)],
                                amount, accts),
                        amount, min_rift_out, accts)

LedgerUnwrapBegin ==
    \E rift_token_amount \in UnwrapAmounts, accts \in AccountChoices :
    \E min_underlying_out \in MinOuts(rift_token_amount) :
        GuardedBegin("unwrap_from_vault",
                     UnwrapPre([State EXCEPT !.rift = GuardAcquire(rift, clock.slot)],
                               rift_token_amount, accts),
                     rift_token_amount, min_underlying_out, accts)

NextLedger ==
    \/ LedgerWrapBegin
    \/ WrapFinish
    \/ LedgerUnwrapBegin
    \/ UnwrapFinish

SpecLedger == InitLedger /\ [][NextLedger]_vars

\* unwraps of a small amount and of all the caller holds
SmallUnwrapBegin ==
    \E rift_token_amount \in {TinyAmount, bal["user_rift"]} :
    \E min_underlying_out \in {0, rift_token_amount} :
        GuardedBegin("unwrap_from_vault",
                     UnwrapPre([State EXCEPT !.rift = GuardAcquire(rift, clock.slot)],
                               rift_token_amount, "own"),
                     rift_token_amount, min_underlying_out, "own")

NextSmallUnwrap ==
    \/ WrapBegin
    \/ WrapFinish
    \/ SmallUnwrapBegin
    \/ UnwrapFinish

SpecSmallUnwrap == Init /\ [][NextSmallUnwrap]_vars

\* the state a call that returned `res` leaves of `st`
Apply(st, res) == [st EXCEPT !.rift = res.rift, !.bal = res.bal,
                             !.withheld = res.withheld, !.supply = res.supply]

\* the record and the accounts after creation, the user holding `funds`
Created(funds, underlying_bps) ==
    [rift |-> InitialRift,
     bal |-> [a \in TokenAccounts |-> IF a = "user_underlying" THEN funds ELSE 0],
     withheld |-> [a \in RiftAccounts |-> 0],
     supply |-> 0,
     underlying_fee_bps |-> underlying_bps, rift_fee_bps |-> MAX_RIFT_FEE_BPS,
     now |-> StartTime, slot |-> StartSlot]

\* the user has wrapped DistWrapFees: the wrap fee is in the fee vault
FundedFees(underlying_bps) ==
    LET s0 == Created(DistWrapFees, underlying_bps)
    IN Apply(s0, wrap_tokens(s0, DistWrapFees, 0, "own"))

\* the user has wrapped DistWrap and sent DistPeer RIFT to a peer, the fee
\* withheld from the peer has been claimed into withheld_vault, and the fee
\* vault has been distributed
FundedWithheld(underlying_bps) ==
    LET s0 == Created(DistWrap, underlying_bps)
        s1 == Apply(s0, wrap_tokens(s0, DistWrap, 0, "own"))
        t  == RiftTransfer(s1, "user_rift", "peer_rift", DistPeer)
        s2 == [s1 EXCEPT !.bal = t.bal, !.withheld = t.withheld]
        s3 == Apply(s2, ClaimWithheldBody(s2, Treasury, "peer_rift"))
    IN Apply(s3, DistributeFeesBody(s3, Creator, s3.bal["fees_vault"], "own"))

InitDistribute ==
    /\ mint_fee \in {[underlying |-> u, rift |-> MAX_RIFT_FEE_BPS] :
                        u \in {0, MAX_UNDERLYING_FEE_BPS}}
    /\ \E st \in {FundedFees(mint_fee.underlying), FundedWithheld(mint_fee.underlying)} :
          /\ rift = st.rift
          /\ bal = st.bal
          /\ withheld = st.withheld
          /\ supply = st.supply
    /\ exists = TRUE
    /\ clock = [slot |-> StartSlot, unix_timestamp |-> StartTime]
    /\ pc = "idle"
    /\ frame = IdleFrame
    /\ bodies = 0

\* distribute_fees_from_vault, of any amount up to what the vault holds and one more
DistributeFeesAny ==
    \E payer \in Signers, amount \in 0..(bal["fees_vault"] + 1) :
        Instruction(DistributeFeesBody(State, payer, amount, "own"))

\* distribute_withheld_vault, likewise
DistributeWithheldAny ==
    \E payer \in Signers, amount \in 0..(bal["withheld_vault"] + 1) :
        Instruction(DistributeWithheldBody(State, payer, amount, "own"))

\* a transfer_checked of the token program, signed by the partner, from the
\* partner's account straight into the fee vault (one such transfer at a
\* time: none while the vault holds more than was counted)
DirectTransferToFeesVault ==
    /\ pc = "idle"
    /\ bal["partner_underlying"] >= DirectAmount
    /\ bal["fees_vault"] <= rift.total_fees_collected
    /\ bal' = TransferChecked(bal, "partner_underlying", "fees_vault", DirectAmount,
                              mint_fee.underlying)
    /\ UNCHANGED <<rift, exists, withheld, supply, mint_fee, clock, pc, frame, bodies>>

NextDistribute ==
    \/ DistributeFeesAny
    \/ DistributeWithheldAny
    \/ DirectTransferToFeesVault

SpecDistribute == InitDistribute /\ [][NextDistribute]_vars

----------------------------------------------------------------------------
(* Properties *)

\* C1: total_rift_minted is what wrap_tokens has minted less what
\* unwrap_from_vault has burned (the supply of the RIFT mint), and no step
\* other than the completion of a wrap or an unwrap changes it.
C1_MintedMatchesSupply ==
    /\ [](rift.total_rift_minted = supply)
    /\ [][rift'.total_rift_minted # rift.total_rift_minted
            => /\ WrapFinish \/ UnwrapFinish
               /\ rift'.total_rift_minted - rift.total_rift_minted = supply' - supply]_vars

\* wraps and unwraps have happened, fees were distributed, withheld fees were
\* claimed, and the counter is the supply
C1_Witness ==
    /\ rift.total_rift_minted > 0
    /\ rift.total_burned > 0
    /\ bal["treasury_underlying"] > 0
    /\ bal["withheld_vault"] > 0
    /\ rift.total_rift_minted = supply

\* C2: after any sequence of wrap_tokens and unwrap_from_vault calls,
\* total_rift_minted is at most total_underlying_wrapped.
C2_MintedAtMostWrapped ==
    rift.total_rift_minted <= rift.total_underlying_wrapped

\* a wrap and a partial unwrap have happened on an underlying with transfer fee
C2_Witness ==
    /\ pc = "idle"
    /\ mint_fee.underlying > 0
    /\ rift.total_burned > 0
    /\ rift.total_rift_minted > 0

\* C3: without admin_emergency_withdraw_vault, and also with an underlying
\* that keeps a transfer fee of 1%, the backing vault holds at least
\* total_rift_minted.
C3_VaultBacksMinted ==
    bal["vault"] >= rift.total_rift_minted

\* wraps, an unwrap, a rebalance, an oracle update and a fee distribution
\* have happened on an underlying with transfer fee, RIFT outstanding
C3_Witness ==
    /\ mint_fee.underlying = MAX_UNDERLYING_FEE_BPS
    /\ rift.total_rift_minted > 0
    /\ rift.total_burned > 0
    /\ rift.rebalance_count > 0
    /\ rift.last_manual_oracle_update > 0
    /\ bal["treasury_underlying"] > 0

\* what the vault receives of `amount` sent to it
Received(amount) == amount - (amount * mint_fee.underlying + 9999) \div 10000

\* the completion of a wrap adds the received amount less the wrap fee
WrapAddsReceivedNetOfFee ==
    /\ WrapFinish
    /\ rift'.total_underlying_wrapped - rift.total_underlying_wrapped =
           Received(frame.amount)
             - (Received(frame.amount) * rift.wrap_fee_bps) \div 10000

\* the completion of an unwrap takes off what the vault was debited
UnwrapTakesVaultDebit ==
    /\ UnwrapFinish
    /\ rift.total_underlying_wrapped - rift'.total_underlying_wrapped =
           bal["vault"] - bal'["vault"]

\* C4 as claimed: total_underlying_wrapped increases only in wrap_tokens, by
\* the received amount net of the wrap fee, decreases only in
\* unwrap_from_vault, by the amount debited from the vault, and nothing else
\* changes it.
C4_OnlyWrapAndUnwrap ==
    [][/\ rift'.total_underlying_wrapped > rift.total_underlying_wrapped
          => WrapAddsReceivedNetOfFee
       /\ rift'.total_underlying_wrapped < rift.total_underlying_wrapped
          => UnwrapTakesVaultDebit]_vars

\* C4 (amended): total_underlying_wrapped increases only in wrap_tokens, by
\* the received amount net of the wrap fee, and decreases only in
\* unwrap_from_vault and in admin_emergency_withdraw_vault, each time by the
\* amount debited from the vault.
C4_WrapUnwrapAndEmergency ==
    [][/\ rift'.total_underlying_wrapped > rift.total_underlying_wrapped
          => WrapAddsReceivedNetOfFee
       /\ rift'.total_underlying_wrapped < rift.total_underlying_wrapped
          => /\ UnwrapFinish \/ AdminEmergencyWithdrawVault
             /\ rift.total_underlying_wrapped - rift'.total_underlying_wrapped =
                    bal["vault"] - bal'["vault"]]_vars

\* an emergency withdrawal has lowered total_underlying_wrapped below the
\* RIFT outstanding
C4_Witness ==
    /\ bal["admin_underlying"] > 0
    /\ rift.total_underlying_wrapped < rift.total_rift_minted

\* C5: total_fees_collected increases only in wrap_tokens and
\* unwrap_from_vault, by what the fee vault was credited, and decreases only
\* in distribute_fees_from_vault and admin_withdraw_fees_vault, by what the
\* fee vault was debited.
C5_FeesFollowFeeVault ==
    [][/\ rift'.total_fees_collected > rift.total_fees_collected
          => /\ WrapFinish \/ UnwrapFinish
             /\ rift'.total_fees_collected - rift.total_fees_collected =
                    bal'["fees_vault"] - bal["fees_vault"]
       /\ rift'.total_fees_collected < rift.total_fees_collected
          => /\ DistributeFeesFromVault \/ AdminWithdrawFeesVault
             /\ rift.total_fees_collected - rift'.total_fees_collected =
                    bal["fees_vault"] - bal'["fees_vault"]]_vars

\* the calls of the guarded instructions tried on a state
GuardedCalls ==
    {wrap_tokens(State, amount, min_out, accts) :
        amount \in WrapAmounts, min_out \in {0, SmallAmount}, accts \in AccountChoices}
    \cup
    {unwrap_from_vault(State, amount, min_out, accts) :
        amount \in UnwrapAmounts, min_out \in {0, SmallAmount}, accts \in AccountChoices}
    \cup
    {trigger_rebalance(State)}

\* C6: between instructions the guard is clear, a call of wrap_tokens,
\* unwrap_from_vault or trigger_rebalance is never refused with
\* ReentrancyDetected, and whether its body succeeds or fails it leaves the
\* guard clear.
C6_GuardClearAfterCall ==
    (pc = "idle" /\ exists) =>
        /\ ~rift.reentrancy_guard
        /\ \A res \in GuardedCalls :
              /\ res.result # "ReentrancyDetected"
              /\ ~res.rift.reentrancy_guard

\* wraps, an unwrap and a rebalance have returned, and in this state one call
\* succeeds and another fails in its body
C6_Witness ==
    /\ pc = "idle"
    /\ exists
    /\ rift.total_rift_minted > 0
    /\ rift.total_burned > 0
    /\ rift.rebalance_count > 0
    /\ \E res \in GuardedCalls : res.result = Ok
    /\ \E res \in GuardedCalls : res.result = "SlippageExceeded"

\* C7: a call that finds the guard set is refused with ReentrancyDetected and
\* changes nothing while the slot is at most reentrancy_guard_slot + 432000
\* (no body starts); later than that it is not refused, and when its body
\* succeeds the guard is clear.
C7_GuardTimeout ==
    /\ [](pc = "idle" /\ exists /\ rift.reentrancy_guard =>
            \A res \in GuardedCalls :
                IF clock.slot > rift.reentrancy_guard_slot + 432000
                THEN /\ res.result # "ReentrancyDetected"
                     /\ res.result = Ok => ~res.rift.reentrancy_guard
                ELSE /\ res.result = "ReentrancyDetected"
                     /\ res.rift = rift
                     /\ res.bal = bal
                     /\ res.supply = supply)
    /\ [][(/\ pc = "idle"
           /\ rift.reentrancy_guard
           /\ clock.slot <= rift.reentrancy_guard_slot + 432000)
            => pc' = "idle"]_vars

\* a wrap found the guard set more than 432000 slots ago, cleared it and is
\* at its first sub-call with the guard taken at the current slot
C7_Witness ==
    /\ pc = "wrap_tokens"
    /\ frame.guard_was
    /\ clock.slot > frame.slot_was + 432000
    /\ rift.reentrancy_guard_slot = clock.slot

\* C8: while the body of wrap_tokens or unwrap_from_vault is at a sub-call,
\* every entry into a guarded instruction of the record is refused with
\* ReentrancyDetected, and never are two bodies in progress.
C8_BodiesSerialized ==
    /\ bodies <= 1
    /\ pc # "idle" =>
          \A res \in GuardedCalls : res.result = "ReentrancyDetected"

\* an unwrap is at a sub-call and a rebalance entered now is refused
C8_Witness ==
    /\ pc = "unwrap_from_vault"
    /\ bodies = 1
    /\ trigger_rebalance(State).result = "ReentrancyDetected"

\* the three custody balances and the three counters are zero
AllEmpty ==
    /\ bal["vault"] = 0
    /\ bal["fees_vault"] = 0
    /\ bal["withheld_vault"] = 0
    /\ rift.total_rift_minted = 0
    /\ rift.total_underlying_wrapped = 0
    /\ rift.total_fees_collected = 0

\* C9: close_rift by the creator succeeds exactly when the three custody
\* balances and the three counters are zero, fails otherwise with
\* VaultNotEmpty, FeesVaultNotEmpty or WithheldVaultNotEmpty, succeeds for
\* nobody else, and the account is closed by it only from such a state.
C9_CloseOnlyWhenEmpty ==
    /\ [](pc = "idle" /\ exists =>
            /\ CloseRiftResult(State, Creator) = Ok <=> AllEmpty
            /\ ~AllEmpty => CloseRiftResult(State, Creator) \in
                               {"VaultNotEmpty", "FeesVaultNotEmpty",
                                "WithheldVaultNotEmpty"}
            /\ CloseRiftResult(State, User) # Ok)
    /\ [][(exists /\ ~exists' /\ ~rift'.is_closed) => AllEmpty]_vars

\* the creator has closed a record that was used and emptied
C9_Witness ==
    /\ ~exists
    /\ ~rift.is_closed
    /\ rift.total_burned > 0
    /\ AllEmpty

\* amounts tried for a wrap followed by the unwrap of what it minted
RoundTripAmounts == {1, 2, SmallAmount \div 2, SmallAmount, bal["user_underlying"]}

\* the state a successful call leaves
After(res) == [State EXCEPT !.rift = res.rift, !.bal = res.bal,
                            !.withheld = res.withheld, !.supply = res.supply]

\* C10: on an underlying without transfer fee, when the wrap fee of X and the
\* unwrap fee of what X mints are 0, wrap_tokens(X) followed by
\* unwrap_from_vault of the minted amount pays X back to the caller and
\* leaves total_underlying_wrapped, total_rift_minted and the vault balance
\* as they were.
C10_RoundTrip ==
    (pc = "idle" /\ exists /\ mint_fee.underlying = 0) =>
        \A X \in RoundTripAmounts :
            LET w == wrap_tokens(State, X, 0, "own")
                u == unwrap_from_vault(After(w), w.out, 0, "own")
            IN (/\ X > 0
                /\ (X * rift.wrap_fee_bps) \div 10000 = 0
                /\ w.result = Ok
                /\ (w.out * rift.unwrap_fee_bps) \div 10000 = 0)
               => /\ u.result = Ok
                  /\ u.out = X
                  /\ u.bal["user_underlying"] = bal["user_underlying"]
                  /\ u.bal["vault"] = bal["vault"]
                  /\ u.rift.total_underlying_wrapped = rift.total_underlying_wrapped
                  /\ u.rift.total_rift_minted = rift.total_rift_minted

\* the user has wrapped SmallAmount and unwrapped what it minted, and holds
\* the funds it started with
C10_Witness ==
    /\ pc = "idle"
    /\ mint_fee.underlying = 0
    /\ rift.total_burned = SmallAmount
    /\ rift.total_rift_minted = 0
    /\ rift.total_underlying_wrapped = 0
    /\ bal["vault"] = 0
    /\ bal["user_underlying"] = UserFunds
    /\ wrap_tokens(State, SmallAmount, 0, "own").result = Ok

\* C11: a distribution of `amount` > 0 from the fee vault or from the withheld
\* vault sends floor(amount / 2) to the partner and amount - floor(amount / 2)
\* to the treasury (each credited less the mint's transfer fee), the two
\* adding up to the amount the vault is debited.
C11_SplitExact ==
    [][/\ bal'["fees_vault"] < bal["fees_vault"] =>
            LET amount == bal["fees_vault"] - bal'["fees_vault"]
                partner_amount == amount \div 2
                treasury_amount == amount - partner_amount
            IN /\ partner_amount + treasury_amount = amount
               /\ treasury_amount - partner_amount = amount % 2
               /\ bal'["partner_underlying"] - bal["partner_underlying"] =
                     partner_amount
                       - (partner_amount * mint_fee.underlying + 9999) \div 10000
               /\ bal'["treasury_underlying"] - bal["treasury_underlying"] =
                     treasury_amount
                       - (treasury_amount * mint_fee.underlying + 9999) \div 10000
       /\ bal'["withheld_vault"] < bal["withheld_vault"] =>
            LET amount == bal["withheld_vault"] - bal'["withheld_vault"]
                partner_amount == amount \div 2
                treasury_amount == amount - partner_amount
            IN /\ partner_amount + treasury_amount = amount
               /\ treasury_amount - partner_amount = amount % 2
               /\ (bal'["partner_rift"] + withheld'["partner_rift"])
                     - (bal["partner_rift"] + withheld["partner_rift"]) = partner_amount
               /\ (bal'["treasury_rift"] + withheld'["treasury_rift"])
                     - (bal["treasury_rift"] + withheld["treasury_rift"]) = treasury_amount
      ]_vars

\* one distribution of an odd amount has been made from each vault: in each
\* the treasury was sent one unit more than the partner
C11_Witness ==
    /\ bal["partner_underlying"] > 1
    /\ bal["treasury_underlying"] = bal["partner_underlying"] + 1
    /\ bal["partner_rift"] > 1
    /\ bal["treasury_rift"] + withheld["treasury_rift"] =
          bal["partner_rift"] + withheld["partner_rift"] + 1

\* C12: a wrap credits total_underlying_wrapped, total_rift_minted and the
\* minted tokens with what the vault received (the requested amount less the
\* underlying's transfer fee) less the wrap fee computed on what was received;
\* with a 1% transfer fee wrap(1000) receives 990 and credits 990 less the
\* wrap fee on 990.
C12_WrapCreditsMeasured ==
    [][(WrapFinish /\ supply' # supply) =>
          LET requested == bal["user_underlying"] - bal'["user_underlying"]
              actual_received == Received(requested)
              wrap_fee == (actual_received * rift.wrap_fee_bps) \div 10000
              credited == actual_received - wrap_fee
          IN /\ requested = frame.amount
             /\ rift'.total_underlying_wrapped - rift.total_underlying_wrapped = credited
             /\ rift'.total_rift_minted - rift.total_rift_minted = credited
             /\ supply' - supply = credited
             /\ bal'["user_rift"] - bal["user_rift"] = credited
             /\ (requested = 1000 /\ mint_fee.underlying = 100) =>
                   /\ actual_received = 990
                   /\ credited = 990 - (990 * rift.wrap_fee_bps) \div 10000
      ]_vars

\* wrap(1000) on an underlying that deducts 1% has credited 988
C12_Witness ==
    /\ pc = "idle"
    /\ mint_fee.underlying = 100
    /\ bal["user_underlying"] = LedgerFunds - 1000
    /\ rift.total_underlying_wrapped = 988
    /\ rift.total_rift_minted = 988
    /\ bal["user_rift"] = 988

\* wrap_tokens and unwrap_from_vault on a vault the two administrators
\* withdraw from
EmergencyWithdrawSome ==
    \E amount \in {DustAmount, SmallAmount} :
        Instruction(EmergencyWithdrawBody(State, ProgramAuthority, AdminAuthority2,
                                          amount))

NextDrained ==
    \/ WrapBegin
    \/ WrapFinish
    \/ UnwrapBegin
    \/ UnwrapFinish
    \/ EmergencyWithdrawSome

SpecDrained == Init /\ [][NextDrained]_vars

----------------------------------------------------------------------------
(* The bound Switchboard feed and its timelocked change *)

ORACLE_CHANGE_DELAY == 86400

\* (mutation) the delay is met one second early
DelayMetEarly(current_time, oracle_change_timestamp) ==
    current_time >= oracle_change_timestamp + ORACLE_CHANGE_DELAY - 1

\* current_time >= rift.oracle_change_timestamp + ORACLE_CHANGE_DELAY
DelayMet(current_time, oracle_change_timestamp) ==
    current_time >= oracle_change_timestamp + ORACLE_CHANGE_DELAY

set_oracle_accounts(st, creator, switchboard_account) ==
    IF creator # st.rift.creator THEN Fail("Unauthorized", st)
    ELSE IF switchboard_account = SystemProgram THEN Fail("InvalidOracleAccount", st)
    ELSE Done([st.rift EXCEPT !.switchboard_feed_account = switchboard_account],
              st.bal, st.withheld, st.supply, 0)

propose_oracle_change(st, creator, switchboard_account) ==
    LET current_time == st.now
    IN
    IF creator # st.rift.creator THEN Fail("Unauthorized", st)
    ELSE IF switchboard_account = SystemProgram THEN Fail("InvalidOracleAccount", st)
    ELSE Done([st.rift EXCEPT !.oracle_change_pending = TRUE,
                              !.pending_switchboard_account = switchboard_account,
                              !.oracle_change_timestamp = current_time],
              st.bal, st.withheld, st.supply, 0)

execute_oracle_change(st, creator) ==
    LET r == st.rift
        current_time == st.now
    IN
    IF creator # r.creator THEN Fail("Unauthorized", st)
    ELSE IF ~r.oracle_change_pending THEN Fail("NoOracleChangePending", st)
    ELSE IF ~DelayMet(current_time, r.oracle_change_timestamp)
    THEN Fail("OracleChangeDelayNotMet", st)
    ELSE Done([r EXCEPT !.switchboard_feed_account = r.pending_switchboard_account,
                        !.oracle_change_pending = FALSE,
                        !.pending_switchboard_account = None],
              st.bal, st.withheld, st.supply, 0)

cancel_oracle_change(st, creator) ==
    LET r == st.rift
    IN
    IF creator # r.creator THEN Fail("Unauthorized", st)
    ELSE IF ~r.oracle_change_pending THEN Fail("NoOracleChangePending", st)
    ELSE Done([r EXCEPT !.oracle_change_pending = FALSE,
                        !.pending_switchboard_account = None],
              st.bal, st.withheld, st.supply, 0)

\* what a caller can pass as switchboard_account
FeedChoices == {None, SystemProgram, FeedA, FeedB}

SetOracleAccounts ==
    \E creator \in {Creator, User}, switchboard_account \in FeedChoices :
        Instruction(set_oracle_accounts(State, creator, switchboard_account))

ProposeOracleChange ==
    \E creator \in {Creator, User}, switchboard_account \in FeedChoices :
        Instruction(propose_oracle_change(State, creator, switchboard_account))

ExecuteOracleChange ==
    \E creator \in {Creator, User} :
        Instruction(execute_oracle_change(State, creator))

CancelOracleChange ==
    \E creator \in {Creator, User} :
        Instruction(cancel_oracle_change(State, creator))

\* time passes between transactions (400 ms a slot)
ChangeTick ==
    \E seconds \in {ChangeTickSeconds - 1, ChangeTickSeconds} :
        /\ pc = "idle"
        /\ clock.unix_timestamp + seconds <= StartTime + MaxChangeTicks * ChangeTickSeconds
        /\ clock' = [slot |-> clock.slot + (seconds * 5) \div 2,
                     unix_timestamp |-> clock.unix_timestamp + seconds]
        /\ UNCHANGED <<rift, exists, bal, withheld, supply, mint_fee, pc, frame, bodies>>

NextOracleChange ==
    \/ SetOracleAccounts
    \/ ProposeOracleChange
    \/ ExecuteOracleChange
    \/ CancelOracleChange
    \/ ChangeTick

SpecOracleChange == Init /\ [][NextOracleChange]_vars

----------------------------------------------------------------------------
(* The average price over windows of every shape *)

\* the window after `set_count` samples were written to a window of
\* PriceData::default(), the last `fresh_count` of them `fresh_age` seconds
\* ago and the others `stale_age` seconds ago
WindowOf(set_count, fresh_count, fresh_age, stale_age) ==
    [i \in 1..WINDOW |->
        IF i > set_count THEN [price |-> 0, confidence |-> 0, timestamp |-> 0]
        ELSE [price |-> IF i % 2 = 1 THEN SamplePriceOdd ELSE SamplePriceEven,
              confidence |-> INITIAL_CONFIDENCE,
              timestamp |-> StartTime - (IF i > set_count - fresh_count
                                         THEN fresh_age ELSE stale_age)]]

FreshAges == {FreshAge, MAX_ORACLE_AGE}
StaleAges == {MAX_ORACLE_AGE + 1, OldSampleAge}
RebalanceAges == {FreshAge, MAX_BACKING_RATIO_AGE, MAX_BACKING_RATIO_AGE + 1,
                  MAX_BACKING_RATIO_AGE_RECOVERY, MAX_BACKING_RATIO_AGE_RECOVERY + 1}

InitAverage ==
    /\ \E set_count \in 0..WINDOW, fresh_count \in 0..WINDOW :
       \E fresh_age \in FreshAges, stale_age \in StaleAges,
          rebalance_age \in RebalanceAges :
           /\ fresh_count <= set_count
           /\ rift = [InitialRift EXCEPT
                         !.oracle_prices = WindowOf(set_count, fresh_count,
                                                    fresh_age, stale_age),
                         !.price_index = set_count % WINDOW,
                         !.last_oracle_update =
                             IF set_count = 0 THEN StartTime - rebalance_age
                             ELSE IF fresh_count > 0 THEN StartTime - fresh_age
                             ELSE StartTime - stale_age,
                         !.last_rebalance = StartTime - rebalance_age]
    /\ InitCommon

\* trigger_rebalance takes the average in normal mode, update_manual_oracle
\* in recovery mode
NextAverage ==
    \/ TriggerRebalance
    \/ UpdateManualOracle

SpecAverage == InitAverage /\ [][NextAverage]_vars

\* C13: an unwrap whose payout is credited to the caller short of what the
\* vault sent by more than the 2% tolerance is rejected, whatever minimum
\* the caller asked for: every unwrap that completes credits the caller at
\* least 98% of the net amount sent to it.
C13_UnwrapRejectsDivergence ==
    [][(UnwrapFinish /\ supply' < supply) =>
          LET unwrap_fee == (frame.amount * rift.unwrap_fee_bps) \div 10000
              sent == frame.amount - unwrap_fee
              received == bal'["user_underlying"] - bal["user_underlying"]
          IN received * 100 >= sent * 98
      ]_vars

\* C14: an unwrap that returns Ok has debited the vault by at least
\* net = amount - fee and credited the caller at least min_underlying_out;
\* an unwrap that would credit the caller less than min_underlying_out (what
\* the same unwrap credits when no minimum is asked for) fails with
\* SlippageExceeded and changes no counter, balance or supply.
C14_UnwrapSlippage ==
    (pc = "idle" /\ exists) =>
        \A rift_token_amount \in {x \in UnwrapAmounts : x > 0} :
            LET free == unwrap_from_vault(State, rift_token_amount, 0, "own")
                net == rift_token_amount
                         - (rift_token_amount * rift.unwrap_fee_bps) \div 10000
            IN free.result = Ok =>
                 /\ bal["vault"] - free.bal["vault"] >= net
                 /\ \A min_underlying_out \in MinOuts(rift_token_amount) :
                       LET res == unwrap_from_vault(State, rift_token_amount,
                                                    min_underlying_out, "own")
                       IN IF free.out >= min_underlying_out
                          THEN /\ res.result = Ok
                               /\ res.out >= min_underlying_out
                          ELSE /\ res.result = "SlippageExceeded"
                               /\ res.rift = rift
                               /\ res.bal = bal
                               /\ res.supply = supply

\* an unwrap of all the caller holds is possible and pays less than the
\* amount burned: asked to pay the amount itself it fails with
\* SlippageExceeded
C14_Witness ==
    /\ pc = "idle"
    /\ rift.total_burned > 0
    /\ bal["user_rift"] > SmallAmount
    /\ unwrap_from_vault(State, bal["user_rift"], 0, "own").result = Ok
    /\ unwrap_from_vault(State, bal["user_rift"], bal["user_rift"], "own").result
          = "SlippageExceeded"

\* what unwrap_from_vault of `rift_token_amount` takes out of the vault: the
\* net amount paid to the caller and, when a fee vault is set, the fee
TakenFromVault(rift_token_amount) ==
    LET unwrap_fee == (rift_token_amount * rift.unwrap_fee_bps) \div 10000
    IN IF unwrap_fee > 0 /\ rift.fees_vault # SystemProgram
       THEN rift_token_amount
       ELSE rift_token_amount - unwrap_fee

\* C15: an unwrap of an amount the caller holds that would take more out of
\* the vault than the vault holds fails with InsufficientFunds, and no unwrap
\* that has passed the check before the burn, and can burn, then fails in
\* its transfers.
C15_VaultCheckedBeforeBurn ==
    /\ (pc = "idle" /\ exists) =>
          \A rift_token_amount \in {x \in UnwrapAmounts : x > 0 /\ x <= bal["user_rift"]} :
              bal["vault"] < TakenFromVault(rift_token_amount)
                  => unwrap_from_vault(State, rift_token_amount, 0, "own").result
                        = "InsufficientFunds"
    /\ (pc = "unwrap_from_vault" /\ frame.amount <= bal["user_rift"]) =>
          UnwrapBody(State, frame.amount, frame.min_out, frame.accts).result
              # "TokenInsufficientFunds"

\* C16: wrap_tokens of amount 0 fails with InvalidAmount; a wrap whose net
\* amount (what the vault received less the wrap fee, the amount it would
\* mint) is below min_rift_out fails with SlippageExceeded, any other
\* minimum is met; a rejected wrap mints nothing and leaves every counter of
\* the record, every balance and the supply as they were.
C16_WrapRejections ==
    (pc = "idle" /\ exists) =>
        /\ \A min_rift_out \in {0, SmallAmount} :
              LET res == wrap_tokens(State, 0, min_rift_out, "own")
              IN /\ res.result = "InvalidAmount"
                 /\ res.rift = rift /\ res.bal = bal /\ res.supply = supply
        /\ \A amount \in {SmallAmount, bal["user_underlying"]} :
              LET free == wrap_tokens(State, amount, 0, "own")
                  net == free.supply - supply
              IN free.result = Ok =>
                   \A min_rift_out \in MinOuts(amount) :
                       LET res == wrap_tokens(State, amount, min_rift_out, "own")
                       IN IF net < min_rift_out
                          THEN /\ res.result = "SlippageExceeded"
                               /\ res.rift = rift
                               /\ res.bal = bal
                               /\ res.supply = supply
                          ELSE /\ res.result = Ok
                               /\ res.supply - supply >= min_rift_out

\* after a first wrap, a wrap of SmallAmount that asks for SmallAmount
\* itself is rejected for the token's transfer fee, and one of zero for
\* its amount
C16_Witness ==
    /\ pc = "idle"
    /\ rift.total_rift_minted > 0
    /\ wrap_tokens(State, SmallAmount, 0, "own").result = Ok
    /\ wrap_tokens(State, SmallAmount, SmallAmount, "own").result = "SlippageExceeded"
    /\ wrap_tokens(State, 0, 0, "own").result = "InvalidAmount"

\* C17: once a feed is bound, the bound feed changes only in a step that
\* applies a pending change proposed at least ORACLE_CHANGE_DELAY seconds
\* before.
C17_FeedChangesOnlyByTimelock ==
    [][(rift.switchboard_feed_account # None
          /\ rift'.switchboard_feed_account # rift.switchboard_feed_account)
         => /\ ExecuteOracleChange
            /\ rift.oracle_change_pending
            /\ rift'.switchboard_feed_account = rift.pending_switchboard_account
            /\ clock.unix_timestamp >= rift.oracle_change_timestamp + ORACLE_CHANGE_DELAY
      ]_vars

\* C18: a proposal records its value and the current time as the pending
\* change, replacing any earlier one; execute_oracle_change succeeds only
\* with a change pending whose proposal is at least 86400 seconds old, and
\* then binds the pending value and clears the pending state;
\* cancel_oracle_change succeeds only with a change pending, clears it and
\* leaves the bound feed; with nothing pending both fail with
\* NoOracleChangePending.
C18_TimelockProtocol ==
    /\ [](LET execute == execute_oracle_change(State, Creator)
              cancel == cancel_oracle_change(State, Creator)
          IN /\ ~rift.oracle_change_pending
                  => /\ execute.result = "NoOracleChangePending"
                     /\ cancel.result = "NoOracleChangePending"
             /\ execute.result = Ok
                  <=> /\ rift.oracle_change_pending
                      /\ clock.unix_timestamp - rift.oracle_change_timestamp >= 86400
             /\ cancel.result = Ok <=> rift.oracle_change_pending)
    /\ [][/\ (ProposeOracleChange /\ rift' # rift)
              => \E switchboard_account \in {None, FeedA, FeedB} :
                    rift' = [rift EXCEPT
                                !.oracle_change_pending = TRUE,
                                !.pending_switchboard_account = switchboard_account,
                                !.oracle_change_timestamp = clock.unix_timestamp]
          /\ (ExecuteOracleChange /\ rift' # rift)
              => /\ rift.oracle_change_pending
                 /\ clock.unix_timestamp - rift.oracle_change_timestamp >= 86400
                 /\ rift' = [rift EXCEPT
                                !.switchboard_feed_account =
                                    rift.pending_switchboard_account,
                                !.oracle_change_pending = FALSE,
                                !.pending_switchboard_account = None]
          /\ (CancelOracleChange /\ rift' # rift)
              => /\ rift.oracle_change_pending
                 /\ rift' = [rift EXCEPT
                                !.oracle_change_pending = FALSE,
                                !.pending_switchboard_account = None]
         ]_vars

\* a second proposal has replaced the first while it was pending, and its
\* own delay has just run out: feed_b, not feed_a, is about to be bound
C18_Witness ==
    /\ rift.oracle_change_pending
    /\ rift.pending_switchboard_account = FeedB
    /\ rift.switchboard_feed_account = FeedA
    /\ rift.oracle_change_timestamp > StartTime
    /\ clock.unix_timestamp = rift.oracle_change_timestamp + ORACLE_CHANGE_DELAY
    /\ execute_oracle_change(State, Creator).result = Ok

\* the samples of the window that are set and older than 3600 seconds, and
\* those that are set and at most 3600 seconds old
StaleSamples ==
    {i \in 1..WINDOW : /\ rift.oracle_prices[i].timestamp > 0
                       /\ clock.unix_timestamp - rift.oracle_prices[i].timestamp > 3600}
FreshSamples ==
    {i \in 1..WINDOW : /\ rift.oracle_prices[i].timestamp > 0
                       /\ clock.unix_timestamp - rift.oracle_prices[i].timestamp <= 3600}

\* backing_ratio when the time since last_rebalance is at most `max_age`,
\* BackingRatioTooStale otherwise
FallbackWithin(max_age) ==
    IF clock.unix_timestamp - rift.last_rebalance <= max_age
    THEN [err |-> Ok, price |-> rift.backing_ratio]
    ELSE [err |-> "BackingRatioTooStale", price |-> 0]

RECURSIVE PriceSum(_)
\* the sum of the prices of the samples of the set S
PriceSum(S) ==
    IF S = {} THEN 0
    ELSE LET i == CHOOSE j \in S : TRUE
         IN rift.oracle_prices[i].price + PriceSum(S \ {i})

\* C20: with at least one sample at most 3600 seconds old, the average is,
\* in both modes, the sum of the prices of exactly those samples divided by
\* their number, rounded down; it is returned when greater than 0 and at
\* most 1e12, otherwise the call fails with InvalidOraclePrice (0) or
\* OraclePriceTooLarge.
C20_AverageOfFreshSamples ==
    FreshSamples # {} =>
        \A allow_stale_fallback \in BOOLEAN :
            LET res == AveragePrice(rift, clock.unix_timestamp, allow_stale_fallback)
                mean == PriceSum(FreshSamples) \div Cardinality(FreshSamples)
            IN /\ res.err \in {Ok, "InvalidOraclePrice", "OraclePriceTooLarge"}
               /\ res.err = Ok <=> (mean > 0 /\ ~ExceedsMaxPrice(mean))
               /\ res.err = Ok => res.price = mean
               /\ res.err = "InvalidOraclePrice" <=> mean = 0

\* trigger_rebalance has set backing_ratio to the average of a window with
\* an odd number of fresh samples, more than one, and some stale ones: the
\* mean of the fresh prices is not whole and was rounded down
C20_Witness ==
    /\ rift.rebalance_count = 1
    /\ StaleSamples # {}
    /\ Cardinality(FreshSamples) > 1
    /\ PriceSum(FreshSamples) % Cardinality(FreshSamples) # 0
    /\ rift.backing_ratio = PriceSum(FreshSamples) \div Cardinality(FreshSamples)
    /\ rift.backing_ratio # INITIAL_PRICE

----------------------------------------------------------------------------
(* add_price_data on samples of every age *)

\* the timestamps a sample is offered with: the limits of the accepted
\* range, the seconds next to them, and the current time
SampleTimestamps ==
    {clock.unix_timestamp - 301, clock.unix_timestamp - 300, clock.unix_timestamp,
     clock.unix_timestamp + 60, clock.unix_timestamp + 61}

AddPriceDataCall ==
    \E price \in ManualPrices, timestamp \in SampleTimestamps :
        LET res == add_price_data(rift, price, INITIAL_CONFIDENCE, timestamp,
                                  clock.unix_timestamp)
        IN /\ pc = "idle"
           /\ rift.price_index < MaxSamples
           /\ rift' = res.rift
           /\ UNCHANGED <<exists, bal, withheld, supply, mint_fee, clock, pc, frame,
                          bodies>>

NextAddPrice == AddPriceDataCall \/ Tick

SpecAddPrice == Init /\ [][NextAddPrice]_vars

\* C21: add_price_data returns InvalidTimestamp and leaves the record (the
\* window, price_index and last_oracle_update with it) as it was for every
\* sample stamped more than 60 seconds after or more than 300 seconds before
\* the current time; every other sample is written at the cursor, the
\* cursor advances by one modulo 10 and last_oracle_update takes the
\* sample's timestamp.
C21_TimestampWindow ==
    \A price \in ManualPrices, timestamp \in SampleTimestamps :
        LET now == clock.unix_timestamp
            res == add_price_data(rift, price, INITIAL_CONFIDENCE, timestamp, now)
        IN IF timestamp - now > 60 \/ now - timestamp > 300
           THEN /\ res.err = "InvalidTimestamp"
                /\ res.rift = rift
           ELSE /\ res.err = Ok
                /\ res.rift.oracle_prices[rift.price_index + 1]
                     = [price |-> price, confidence |-> INITIAL_CONFIDENCE,
                        timestamp |-> timestamp]
                /\ \A i \in 1..WINDOW :
                     i # rift.price_index + 1
                       => res.rift.oracle_prices[i] = rift.oracle_prices[i]
                /\ res.rift.price_index = (rift.price_index + 1) % 10
                /\ res.rift.last_oracle_update = timestamp

\* a sample stamped exactly 300 seconds ago and then one stamped exactly 60
\* seconds ahead have been written
C21_Witness ==
    /\ rift.price_index = 2
    /\ rift.oracle_prices[1].timestamp = clock.unix_timestamp - 300
    /\ rift.oracle_prices[2].timestamp = clock.unix_timestamp + 60
    /\ rift.last_oracle_update = clock.unix_timestamp + 60

----------------------------------------------------------------------------
(* Manual oracle updates and rebalances over hours and days *)

\* update_manual_oracle: what the call returns and leaves
update_manual_oracle(st, oracle_authority, price, confidence) ==
    ManualOracleBody(st, oracle_authority, price, confidence)

\* prices a creator walks the oracle up with: steps of 10% from
\* INITIAL_PRICE, and prices half a basis point and one basis point beyond
\* a step
StepPrices == {1100000, 1100050, 1100100, 1210000, 1300100, 1331000}

ManualUpdate ==
    \E oracle_authority \in {Creator, User}, price \in StepPrices,
       confidence \in ManualConfidences :
        /\ rift.price_index < MaxManualUpdates
        /\ Instruction(update_manual_oracle(State, oracle_authority, price, confidence))

\* an hour, or a second less, passes after a manual update
HourTick ==
    \E seconds \in {MIN_MANUAL_UPDATE_GAP - 1, MIN_MANUAL_UPDATE_GAP} :
        /\ pc = "idle"
        /\ rift.last_manual_oracle_update = clock.unix_timestamp
        /\ clock' = [slot |-> clock.slot + (seconds * 5) \div 2,
                     unix_timestamp |-> clock.unix_timestamp + seconds]
        /\ UNCHANGED <<rift, exists, bal, withheld, supply, mint_fee, pc, frame, bodies>>

\* days pass
DaysTick ==
    /\ pc = "idle"
    /\ clock.unix_timestamp + DaysTickSeconds
         <= StartTime + MaxDaysTicks * DaysTickSeconds
              + MaxManualUpdates * MIN_MANUAL_UPDATE_GAP
    /\ clock' = [slot |-> clock.slot + (DaysTickSeconds * 5) \div 2,
                 unix_timestamp |-> clock.unix_timestamp + DaysTickSeconds]
    /\ UNCHANGED <<rift, exists, bal, withheld, supply, mint_fee, pc, frame, bodies>>

NextManual ==
    \/ ManualUpdate
    \/ TriggerRebalance
    \/ HourTick
    \/ DaysTick

SpecManual == Init /\ [][NextManual]_vars

\* C22: a successful update_manual_oracle stamps last_manual_oracle_update
\* with the current time, and one that follows another comes at least 3600
\* seconds after it; a call made sooner returns OracleUpdateTooFrequent and
\* leaves the record as it was.
C22_ManualRateLimit ==
    /\ []((rift.last_manual_oracle_update > 0
             /\ clock.unix_timestamp - rift.last_manual_oracle_update < 3600)
            => \A price \in StepPrices, confidence \in ManualConfidences :
                 LET res == update_manual_oracle(State, Creator, price, confidence)
                 IN /\ res.result = "OracleUpdateTooFrequent"
                    /\ res.rift = rift)
    /\ [][(ManualUpdate /\ rift' # rift)
            => /\ rift'.last_manual_oracle_update = clock.unix_timestamp
               /\ rift.last_manual_oracle_update > 0
                    => clock.unix_timestamp - rift.last_manual_oracle_update >= 3600
         ]_vars

\* a second manual update has gone through exactly 3600 seconds after the
\* first
C22_Witness ==
    /\ rift.price_index = 2
    /\ rift.last_manual_oracle_update = clock.unix_timestamp
    /\ rift.oracle_prices[2].timestamp = clock.unix_timestamp
    /\ rift.oracle_prices[1].timestamp = clock.unix_timestamp - 3600

\* the aggregate update_manual_oracle compares a price with: the average in
\* recovery mode
Aggregate == AveragePrice(rift, clock.unix_timestamp, TRUE)

\* the distance of `price` from `reference` in whole basis points of
\* `reference`
ChangeBps(price, reference) ==
    LET change == IF price > reference THEN price - reference ELSE reference - price
        whole == change \div reference
        left == change % reference
    IN whole * 10000 + ((left * 100) \div reference) * 100
         + ((((left * 100) % reference) * 100) \div reference)

\* C23: every price update_manual_oracle accepts is within 1000 basis
\* points (10%, in whole basis points) of the aggregate price at the time
\* of the call, is greater than 0 and at most 1e12; a call by the creator
\* that the rate limit lets in with a price further from the aggregate
\* returns OraclePriceChangeTooLarge and leaves the record as it was.
C23_ChangePerUpdate ==
    \A price \in StepPrices, confidence \in ManualConfidences :
        LET res == update_manual_oracle(State, Creator, price, confidence)
        IN /\ res.result = Ok
                => /\ Aggregate.err = Ok
                   /\ ChangeBps(price, Aggregate.price) <= 1000
                   /\ price > 0
                   /\ ~ExceedsMaxPrice(price)
           /\ (/\ Aggregate.err = Ok
               /\ ChangeBps(price, Aggregate.price) > 1000
               /\ rift.last_manual_oracle_update > 0
                    => clock.unix_timestamp - rift.last_manual_oracle_update >= 3600)
                => /\ res.result = "OraclePriceChangeTooLarge"
                   /\ res.rift = rift

\* a second manual update has moved the price by exactly 10% of the
\* aggregate, which was the first manual price, the only fresh sample
C23_Witness ==
    /\ rift.price_index = 2
    /\ rift.last_manual_oracle_update = clock.unix_timestamp
    /\ rift.oracle_prices[1].price = 1100000
    /\ rift.oracle_prices[2].price = 1210000
    /\ rift.manual_oracle_base_price = INITIAL_PRICE

C25_RebalanceEffect ==
    (pc = "idle" /\ exists) =>
        LET res == trigger_rebalance(State)
            avg == AveragePrice(rift, clock.unix_timestamp, FALSE)
        IN res.result = Ok =>
             /\ avg.err = Ok
             /\ avg.price > 0
             /\ ~ExceedsMaxPrice(avg.price)
             /\ res.rift = [rift EXCEPT !.backing_ratio = avg.price,
                                        !.total_volume_24h = 0,
                                        !.price_deviation = 0,
                                        !.arbitrage_opportunity_bps = 0,
                                        !.rebalance_count = rift.rebalance_count + 1,
                                        !.last_rebalance = clock.unix_timestamp,
                                        !.reentrancy_guard = FALSE,
                                        !.reentrancy_guard_slot = 0]
             /\ res.bal = bal
             /\ res.withheld = withheld
             /\ res.supply = supply

\* a rebalance has followed a manual update and an unwrap: backing_ratio is
\* the average of nine initial samples and the manual one, and the volume
\* the unwrap had counted is back at 0
C25_Witness ==
    /\ pc = "idle"
    /\ rift.rebalance_count = 1
    /\ rift.last_rebalance = clock.unix_timestamp
    /\ rift.backing_ratio # INITIAL_PRICE
    /\ rift.backing_ratio = AveragePrice(rift, clock.unix_timestamp, FALSE).price
    /\ rift.total_burned > 0
    /\ rift.total_volume_24h = 0

\* the times last_rebalance is set to when asking whether the answer of
\* trigger_rebalance depends on it
RebalanceTimes == {clock.unix_timestamp, clock.unix_timestamp - 1, StartTime}

C27_DeliveryVerified ==
    /\ \A payer \in Signers, amount \in 0..(bal["fees_vault"] + 1) :
          LET res == DistributeFeesBody(State, payer, amount, "own")
          IN res.result = Ok =>
               /\ (res.bal["partner_underlying"] - bal["partner_underlying"])
                    + (res.bal["treasury_underlying"] - bal["treasury_underlying"])
                       >= (amount * 98) \div 100
               /\ bal["fees_vault"] - res.bal["fees_vault"] = amount
               /\ res.rift.total_fees_collected =
                     rift.total_fees_collected - (bal["fees_vault"] - res.bal["fees_vault"])
    /\ \A payer \in Signers, amount \in 0..(bal["withheld_vault"] + 1) :
          LET res == DistributeWithheldBody(State, payer, amount, "own")
          IN res.result = Ok =>
               /\ (res.bal["partner_rift"] - bal["partner_rift"])
                    + (res.bal["treasury_rift"] - bal["treasury_rift"])
                       >= (amount * 98) \div 100
               /\ bal["withheld_vault"] - res.bal["withheld_vault"] = amount

\* C28: distribute_fees_from_vault and distribute_withheld_vault succeed only
\* when the caller is the creator, the partner, the treasury or the protocol
\* authority and the partner and treasury accounts passed are the ones owned
\* by the recorded wallets in the expected mint; with any other caller or
\* destination they fail, no balance moves and the record is unchanged.
C28_DistributeAuthorized ==
    \A payer \in Signers, accts \in PayoutChoices :
        LET allowed == /\ payer \in {rift.creator, rift.partner_wallet,
                                     rift.treasury_wallet, ProgramAuthority}
                       /\ accts = "own"
        IN /\ \A amount \in VaultAmounts("fees_vault") :
                LET res == DistributeFeesBody(State, payer, amount, accts)
                IN /\ res.result = Ok => allowed
                   /\ ~allowed => /\ res.result \in {"Unauthorized", "InvalidTreasuryVault",
                                                     "InvalidPartnerVault"}
                                  /\ res.bal = bal
                                  /\ res.withheld = withheld
                                  /\ res.rift = rift
           /\ \A amount \in VaultAmounts("withheld_vault") :
                LET res == DistributeWithheldBody(State, payer, amount, accts)
                IN /\ res.result = Ok => allowed
                   /\ ~allowed => /\ res.result \in {"Unauthorized", "InvalidTreasuryVault",
                                                     "InvalidPartnerVault"}
                                  /\ res.bal = bal
                                  /\ res.withheld = withheld
                                  /\ res.rift = rift

\* both vaults hold fees and a distribution has paid the partner: each of the
\* four identities can distribute from either vault, the user cannot, and the
\* creator cannot towards an account the treasury does not own
C28_Witness ==
    /\ bal["fees_vault"] > 0
    /\ bal["withheld_vault"] > 0
    /\ bal["partner_underlying"] > 0
    /\ \A payer \in {Creator, Partner, Treasury, ProgramAuthority} :
          /\ DistributeFeesBody(State, payer, bal["fees_vault"], "own").result = Ok
          /\ DistributeWithheldBody(State, payer, bal["withheld_vault"], "own").result = Ok
    /\ DistributeFeesBody(State, User, bal["fees_vault"], "own").result = "Unauthorized"
    /\ DistributeWithheldBody(State, Creator, bal["withheld_vault"], "foreign_treasury").result
          = "InvalidTreasuryVault"

C30_ConfigurationFixed ==
    /\ rift.vault = InitialRift.vault
    /\ rift.fees_vault = InitialRift.fees_vault
    /\ rift.withheld_vault = InitialRift.withheld_vault
    /\ rift.treasury_wallet = InitialRift.treasury_wallet
    /\ rift.partner_wallet = InitialRift.partner_wallet
    /\ rift.wrap_fee_bps = InitialRift.wrap_fee_bps
    /\ rift.unwrap_fee_bps = InitialRift.unwrap_fee_bps
    /\ \A user \in Signers, account \in {"vault", "fees_vault", "withheld_vault"} :
          /\ InitializeFeesVaultBody(State, user, account).result # Ok
          /\ InitializeWithheldVaultBody(State, user, account).result # Ok

\* wraps, an unwrap, a rebalance, a manual oracle update, a fee distribution
\* and a claim of withheld fees have happened, and the creator's
\* initialize_fees_vault and initialize_withheld_vault on the record's own
\* vault addresses are turned down because the accounts exist
C30_Witness ==
    /\ rift.total_burned > 0
    /\ rift.rebalance_count > 0
    /\ rift.last_manual_oracle_update > 0
    /\ bal["treasury_underlying"] > 0
    /\ bal["withheld_vault"] > 0
    /\ rift.fees_vault = "fees_vault"
    /\ InitializeFeesVaultBody(State, Creator, "fees_vault").result = "AccountAlreadyInUse"
    /\ InitializeWithheldVaultBody(State, ProgramAuthority, "withheld_vault").result
          = "AccountAlreadyInUse"

----------------------------------------------------------------------------
(* wrap_tokens and unwrap_from_vault at the top of the integer range *)

\* the largest amount the fee multiplication can take at the default rate
LargeCap == U64_MAX \div DEFAULT_FEE_BPS

\* the user holds one unit more than LargeCap of an underlying without transfer fee
InitLarge ==
    /\ rift = InitialRift
    /\ exists = TRUE
    /\ bal = [a \in TokenAccounts |-> IF a = "user_underlying" THEN LargeCap + LargeExtra ELSE 0]
    /\ withheld = [a \in RiftAccounts |-> 0]
    /\ supply = 0
    /\ mint_fee = [underlying |-> 0, rift |-> MAX_RIFT_FEE_BPS]
    /\ clock = [slot |-> StartSlot, unix_timestamp |-> StartTime]
    /\ pc = "idle"
    /\ frame = IdleFrame
    /\ bodies = 0

\* wrap_tokens of LargeCap, of one more, and of all the caller holds
LargeWrapBegin ==
    \E amount \in {LargeCap, LargeCap + 1, bal["user_underlying"]} :
        GuardedBegin("wrap_tokens",
                     WrapPre([State EXCEPT !.rift = GuardAcquire(rift, clock.slot)],
                             amount, "own"),
                     amount, 0, "own")

\* unwrap_from_vault of all the caller holds, of LargeCap and of one more
LargeUnwrapBegin ==
    \E rift_token_amount \in {bal["user_rift"], LargeCap, LargeCap + 1} :
        GuardedBegin("unwrap_from_vault",
                     UnwrapPre([State EXCEPT !.rift = GuardAcquire(rift, clock.slot)],
                               rift_token_amount, "own"),
                     rift_token_amount, 0, "own")

SpecLarge ==
    InitLarge /\ [][LargeWrapBegin \/ WrapFinish \/ LargeUnwrapBegin \/ UnwrapFinish]_vars

\* C31: wrap_tokens and unwrap_from_vault answer AmountTooLarge exactly to the
\* amounts above floor(U64_MAX / fee_bps), before the fee is multiplied out;
\* an unwrap whose addition to total_burned, total_fees_collected or
\* total_volume_24h would pass U64_MAX fails with MathOverflow and leaves the
\* record, the balances and the supply as they were, and every counter stays
\* within 0..U64_MAX.
C31_NoSilentWrap ==
    pc = "idle" =>
      /\ \A amount \in {1, LargeCap, LargeCap + 1, U64_MAX} :
           /\ wrap_tokens(State, amount, 0, "own").result = "AmountTooLarge"
                 <=> amount > U64_MAX \div rift.wrap_fee_bps
           /\ unwrap_from_vault(State, amount, 0, "own").result = "AmountTooLarge"
                 <=> amount > U64_MAX \div rift.unwrap_fee_bps
      /\ LET res == unwrap_from_vault(State, bal["user_rift"], 0, "own")
             fee == (bal["user_rift"] * rift.unwrap_fee_bps) \div 10000
         IN bal["user_rift"] > 0 =>
              IF \/ rift.total_burned > U64_MAX - bal["user_rift"]
                 \/ rift.total_fees_collected > U64_MAX - fee
                 \/ rift.total_volume_24h > U64_MAX - (bal["user_rift"] - fee)
              THEN /\ res.result = "MathOverflow"
                   /\ res.rift = rift
                   /\ res.bal = bal
                   /\ res.supply = supply
              ELSE /\ res.result = Ok
                   /\ res.rift.total_burned = rift.total_burned + bal["user_rift"]
      /\ \A counter \in {rift.total_underlying_wrapped, rift.total_rift_minted,
                         rift.total_burned, rift.total_fees_collected,
                         rift.total_volume_24h} : counter \in 0..U64_MAX

\* after many wraps and unwraps of nearly LargeCap the next unwrap would carry
\* total_burned past U64_MAX, and is turned down
C31_Witness ==
    /\ pc = "idle"
    /\ bal["user_rift"] > 0
    /\ rift.total_burned > U64_MAX - bal["user_rift"]
    /\ unwrap_from_vault(State, bal["user_rift"], 0, "own").result = "MathOverflow"
    /\ wrap_tokens(State, LargeCap + 1, 0, "own").result = "AmountTooLarge"

C33_WrappedIsVaultBalance ==
    (pc = "idle" /\ mint_fee.underlying = 0 /\ rift.fees_vault # SystemProgram)
        => rift.total_underlying_wrapped = bal["vault"]

\* wraps and an unwrap have completed on an underlying without transfer fee,
\* both fees went to the fee vault, and RIFT is still outstanding
C33_Witness ==
    /\ pc = "idle"
    /\ mint_fee.underlying = 0
    /\ rift.total_burned > 0
    /\ rift.total_rift_minted > 0
    /\ bal["fees_vault"] > 1
    /\ rift.total_underlying_wrapped = bal["vault"]

\* C34: between operations, once no RIFT is outstanding and the backing
\* vault, the fee vault and the withheld vault are all empty, close_rift
\* called by the creator succeeds.
C34_EmptyRiftCloses ==
    (/\ pc = "idle"
     /\ exists
     /\ rift.total_rift_minted = 0
     /\ bal["vault"] = 0
     /\ bal["fees_vault"] = 0
     /\ bal["withheld_vault"] = 0)
        => CloseRiftResult(State, Creator) = Ok

\* C35: with the fee vault set and an underlying mint without transfer fee,
\* between operations total_fees_collected is the balance of the fee vault,
\* in whatever order wrap_tokens, unwrap_from_vault,
\* distribute_fees_from_vault and admin_withdraw_fees_vault are called.
C35_FeesAreFeeVaultBalance ==
    (pc = "idle" /\ mint_fee.underlying = 0 /\ rift.fees_vault # SystemProgram)
        => rift.total_fees_collected = bal["fees_vault"]

\* on an underlying without transfer fee, fees of wraps and of an unwrap were
\* collected, a distribution has paid the partner and an admin withdrawal
\* has paid the treasury more
C35_Witness ==
    /\ pc = "idle"
    /\ mint_fee.underlying = 0
    /\ rift.total_burned > 0
    /\ bal["partner_underlying"] > 0
    /\ bal["treasury_underlying"] > bal["partner_underlying"] + 1
    /\ rift.total_fees_collected = bal["fees_vault"]

\* C36: between operations, distribute_fees_from_vault called by the
\* creator, the partner, the treasury or the protocol authority with the
\* recorded destination accounts succeeds for every amount from 1 to the
\* balance of the fee vault, however that balance came into the vault.
C36_EveryBalanceDistributable ==
    \A payer \in {Creator, Partner, Treasury, ProgramAuthority} :
        \A amount \in 1..bal["fees_vault"] :
            DistributeFeesBody(State, payer, amount, "own").result = Ok

\* C37: recovery of the oracle of a manual-price vault is always possible:
\* from every state, the one whose samples are all older than an hour and
\* whose last rebalance is more than 7 days old included, there is a later
\* time (now, an hour on, a second after that, 7 days on) at which
\* update_manual_oracle by the creator with the current backing_ratio as
\* price returns Ok.
C37_RecoveryAlwaysPossible ==
    \E wait \in {0, MIN_MANUAL_UPDATE_GAP, MAX_ORACLE_AGE + 1,
                 MAX_BACKING_RATIO_AGE_RECOVERY} :
        update_manual_oracle([State EXCEPT !.now = @ + wait], Creator,
                             rift.backing_ratio, 0).result = Ok

\* C38: between operations backing_ratio is greater than 0 and at most
\* 1e12; it starts at 1,000,000, and the only step that changes it is a
\* trigger_rebalance, which writes the average price of the window after
\* that average passed the check of being in (0, 1e12].
C38_BackingRatioInRange ==
    /\ rift.backing_ratio = 1000000
    /\ [](rift.backing_ratio > 0 /\ ~ExceedsMaxPrice(rift.backing_ratio))
    /\ [][rift'.backing_ratio # rift.backing_ratio
            => LET avg == AveragePrice(rift, clock.unix_timestamp, FALSE)
               IN /\ TriggerRebalance
                  /\ avg.err = Ok
                  /\ avg.price > 0 /\ ~ExceedsMaxPrice(avg.price)
                  /\ rift'.backing_ratio = avg.price
                  /\ rift'.last_rebalance = clock.unix_timestamp
         ]_vars

\* a rebalance has overwritten the initial backing_ratio with the average of
\* the fresh samples
C38_Witness ==
    /\ pc = "idle"
    /\ rift.rebalance_count > 0
    /\ rift.backing_ratio > 1000000
    /\ rift.last_rebalance > StartTime

\* C39: the price window is a ring of 10 slots: price_index is always in
\* 0..9, and every step that writes a sample writes it in the slot at
\* price_index, advances price_index by one modulo 10, sets
\* last_oracle_update to the sample's timestamp and leaves the other 9
\* slots as they were; a sample accepted after 10 others lands in the slot
\* of the first.
C39_RingOfTen ==
    /\ [](rift.price_index \in 0..9)
    /\ [](\A price \in ManualPrices :
            LET now == clock.unix_timestamp
                res == add_price_data(rift, price, INITIAL_CONFIDENCE, now, now)
            IN /\ res.err = Ok
               /\ res.rift.price_index = (rift.price_index + 1) % 10
               /\ res.rift.price_index \in 0..9
               /\ res.rift.oracle_prices[rift.price_index + 1].price = price
               /\ \A i \in 1..WINDOW :
                    i # rift.price_index + 1
                      => res.rift.oracle_prices[i] = rift.oracle_prices[i])
    /\ [][(rift'.oracle_prices # rift.oracle_prices
             \/ rift'.price_index # rift.price_index
             \/ rift'.last_oracle_update # rift.last_oracle_update)
            => /\ rift'.price_index = (rift.price_index + 1) % 10
               /\ rift'.oracle_prices[rift.price_index + 1].timestamp = clock.unix_timestamp
               /\ rift'.oracle_prices[rift.price_index + 1].price \in ManualPrices
               /\ rift'.last_oracle_update
                    = rift'.oracle_prices[rift.price_index + 1].timestamp
               /\ \A i \in 1..WINDOW :
                    i # rift.price_index + 1
                      => rift'.oracle_prices[i] = rift.oracle_prices[i]
         ]_vars

\* an eleventh sample has gone into the slot of the first: the cursor is
\* back at 1 and the nine samples after it are those written before
C39_Witness ==
    /\ rift.price_index = 1
    /\ rift.oracle_prices[1].timestamp = clock.unix_timestamp
    /\ rift.last_oracle_update = clock.unix_timestamp
    /\ \A i \in 2..WINDOW :
         /\ rift.oracle_prices[i].timestamp > 0
         /\ rift.oracle_prices[i].timestamp < clock.unix_timestamp

====
